---------------------------- MODULE Spec2Model ----------------------------
(***************************************************************************)
(* A model of the proof editor widget of aris (src/src/js_interop/js_ui.rs). *)
(*                                                                         *)
(* ProofWidget owns a proof document `prf` (a PooledProof), the per-line   *)
(* UI data `pud` (ref_to_line_depth, ref_to_input) and `selected_line`.    *)
(* Every message of ProofWidget::update is one action.  The pooled proof   *)
(* itself (proofs::pooledproof) and the parser are not part of the source  *)
(* files at hand; their operations are modelled from the specification     *)
(* (sections 3, 4.1 - 4.3 and 6).                                          *)
(*                                                                         *)
(* `preblob`, the debug log that update appends to, is write-only and      *)
(* unbounded; it is left out.                                              *)
(***************************************************************************)
EXTENDS Integers, Sequences, FiniteSets, TLC

\* ------------------------------------------------------------------ bounds
\* Keys the pool may issue per kind (premises, justified steps, subproofs).
MaxPrem == 2
MaxJust == 2
MaxSub == 1
\* Marks a document may carry in all: lines with user-typed text, steps with a
\* rule other than the default, citations.
MaxMarks == 1

\* ------------------------------------------------------------- references
\* A reference is <<kind, key>>: "P" premise, "J" justified step, "S" subproof.
PremRef(n) == <<"P", n>>
JustRef(n) == <<"J", n>>
SubRef(n) == <<"S", n>>
None == <<"None", 0>>

IsPrem(r) == r[1] = "P"
IsJust(r) == r[1] = "J"
IsSub(r) == r[1] = "S"

\* Ord on Coprod!(PremiseReference, JustificationReference): Inl < Inr, then by key.
RefLess(a, b) == IF a[1] = b[1] THEN a[2] < b[2] ELSE a[1] = "P"

\* ------------------------------------------------------------ expressions
\* Expressions are named by their display string.
BlankExpr == ""
BlankPremise == "__js_ui_blank_premise"
BlankStep == "__js_ui_blank_step"

\* Text a user may type into a line; parse gives an expression or NoExpr.
Texts == {"A", "A &"}
NoExpr == "<none>"
parse(text) == IF text = "A" THEN "A" ELSE NoExpr

\* Rules: the reiterate default and one other member of the rule set.
Reit == "Reit"
Rules == {"Reit", "AndIntro"}

\* ProofWidgetProps.verbose as every ProofWidget of the application is built.
verbose == TRUE

\* -------------------------------------------------------------- sequences
Range(s) == {s[i] : i \in 1..Len(s)}

IndexOf(s, x) == CHOOSE i \in 1..Len(s) : s[i] = x

InsertAt(s, i, x) == SubSeq(s, 1, i - 1) \o <<x>> \o SubSeq(s, i, Len(s))

RemoveElem(s, x) == SelectSeq(s, LAMBDA y : y # x)

\* x placed immediately after r (after) or immediately before r (~after).
insert_relative(s, x, r, after) ==
    IF r \in Range(s)
    THEN InsertAt(s, IF after THEN IndexOf(s, r) + 1 ELSE IndexOf(s, r), x)
    ELSE s

\* A finite map as a function; insert overwrites, remove drops the key.
MapInsert(m, k, v) == [x \in DOMAIN m \cup {k} |-> IF x = k THEN v ELSE m[x]]
MapRemove(m, k) == [x \in DOMAIN m \ {k} |-> m[x]]
EmptyMap == [x \in {} |-> 0]

\* ------------------------------------------------------------------- pool
\* prf = [prem_map, just_map, sub_map, next_prem, next_just, next_sub]
\*   prem_map : premise key -> expression
\*   just_map : step key -> [expr, rule, deps, sdeps]     (Justification .0 .1 .2 .3)
\*   sub_map  : subproof key -> [premise_list, line_list]; key Root is the root
\*   next_*   : the next key of each kind; keys only grow
Root == 0

Justification(e, rule, deps, sdeps) ==
    [expr |-> e, rule |-> rule, deps |-> deps, sdeps |-> sdeps]

EmptySubproof == [premise_list |-> <<>>, line_list |-> <<>>]

\* P::new(): an empty root, nothing allocated.
NewProof ==
    [prem_map |-> EmptyMap, just_map |-> EmptyMap,
     sub_map |-> [k \in {Root} |-> EmptySubproof],
     next_prem |-> 0, next_just |-> 0, next_sub |-> 1]

premises(p, k) == p.sub_map[k].premise_list
lines(p, k) == p.sub_map[k].line_list

\* lookup: does the reference name an entity of the pool.
lookup_pj(p, r) ==
    CASE IsPrem(r) -> r[2] \in DOMAIN p.prem_map
      [] IsJust(r) -> r[2] \in DOMAIN p.just_map
      [] OTHER -> FALSE

lookup_subproof(p, sr) == IsSub(sr) /\ sr[2] \in DOMAIN p.sub_map /\ sr[2] # Root

\* The content lookup yields: the expression, and for a step its rule and lists.
lookup_content(p, r) ==
    IF IsPrem(r) THEN <<p.prem_map[r[2]]>> ELSE <<p.just_map[r[2]]>>

\* Key of the subproof whose premise or line sequence holds r (-1: none does).
containing_sub(p, r) ==
    LET ks == {k \in DOMAIN p.sub_map :
                 r \in Range(p.sub_map[k].premise_list) \cup Range(p.sub_map[k].line_list)}
    IN IF ks = {} THEN -1 ELSE CHOOSE k \in ks : TRUE

\* parent_of_line: the enclosing subproof; None for root-level lines (and for
\* references that are in no subproof).
parent_of_line(p, r) ==
    LET k == containing_sub(p, r)
    IN IF k = -1 \/ k = Root THEN None ELSE SubRef(k)

\* The subproofs nested in subproof k, k included.
RECURSIVE sub_descendants(_, _)
sub_descendants(p, k) ==
    {k} \cup UNION {sub_descendants(p, sr[2]) : sr \in {x \in Range(lines(p, k)) : IsSub(x)}}

\* Premise keys and step keys held by a set of subproofs.
prems_in(p, ks) == {r[2] : r \in UNION {Range(premises(p, k)) : k \in ks}}
justs_in(p, ks) == {r[2] : r \in {x \in UNION {Range(lines(p, k)) : k \in ks} : IsJust(x)}}

\* add_premise / add_step on subproof k: append a new entity.
add_premise(p, k, e) ==
    [p EXCEPT !.prem_map = MapInsert(@, p.next_prem, e),
              !.sub_map[k].premise_list = Append(@, PremRef(p.next_prem)),
              !.next_prem = @ + 1]

add_step(p, k, j) ==
    [p EXCEPT !.just_map = MapInsert(@, p.next_just, j),
              !.sub_map[k].line_list = Append(@, JustRef(p.next_just)),
              !.next_just = @ + 1]

\* add_*_relative: a new entity adjacent to r in r's own subproof.  Called only
\* with an r that resolves (the specification leaves the other case undefined).
add_premise_relative(p, e, r, after) ==
    LET k == containing_sub(p, r)
    IN [p EXCEPT !.prem_map = MapInsert(@, p.next_prem, e),
                 !.sub_map[k].premise_list = insert_relative(@, PremRef(p.next_prem), r, after),
                 !.next_prem = @ + 1]

add_step_relative(p, j, r, after) ==
    LET k == containing_sub(p, r)
    IN [p EXCEPT !.just_map = MapInsert(@, p.next_just, j),
                 !.sub_map[k].line_list = insert_relative(@, JustRef(p.next_just), r, after),
                 !.next_just = @ + 1]

add_subproof_relative(p, r, after) ==
    LET k == containing_sub(p, r)
    IN [p EXCEPT !.sub_map = [x \in DOMAIN p.sub_map \cup {p.next_sub} |->
                                 IF x = p.next_sub THEN EmptySubproof
                                 ELSE IF x = k
                                 THEN [p.sub_map[k] EXCEPT !.line_list =
                                          insert_relative(@, SubRef(p.next_sub), r, after)]
                                 ELSE p.sub_map[x]],
                 !.next_sub = @ + 1]

\* remove_line: the premise or step leaves its subproof and the pool; it
\* performs no validation, and citations of r elsewhere are left as they are.
remove_line(p, r) ==
    LET k == containing_sub(p, r)
        q == IF IsPrem(r) THEN [p EXCEPT !.prem_map = MapRemove(@, r[2])]
                          ELSE [p EXCEPT !.just_map = MapRemove(@, r[2])]
    IN IF k = -1 THEN p
       ELSE [q EXCEPT !.sub_map[k].premise_list = RemoveElem(@, r),
                      !.sub_map[k].line_list = RemoveElem(@, r)]

\* remove_subproof: the nested subproof and all its contents leave the parent's
\* line sequence and the pool; citations held elsewhere are not cleaned up.
remove_subproof(p, sr) ==
    IF ~lookup_subproof(p, sr) THEN p
    ELSE LET k == containing_sub(p, sr)
             gone == sub_descendants(p, sr[2])
             dp == prems_in(p, gone)
             dj == justs_in(p, gone)
         IN [p EXCEPT !.prem_map = [x \in DOMAIN p.prem_map \ dp |-> p.prem_map[x]],
                      !.just_map = [x \in DOMAIN p.just_map \ dj |-> p.just_map[x]],
                      !.sub_map = [x \in DOMAIN p.sub_map \ gone |->
                                      IF x = k
                                      THEN [p.sub_map[x] EXCEPT !.line_list = RemoveElem(@, sr)]
                                      ELSE p.sub_map[x]]]

\* with_mut_premise / with_mut_step: mutate one entity, nothing when absent.
with_mut_premise_expr(p, r, e) ==
    IF r[2] \in DOMAIN p.prem_map THEN [p EXCEPT !.prem_map[r[2]] = e] ELSE p

with_mut_step_expr(p, r, e) ==
    IF r[2] \in DOMAIN p.just_map THEN [p EXCEPT !.just_map[r[2]].expr = e] ELSE p

with_mut_step_rule(p, r, rule) ==
    IF r[2] \in DOMAIN p.just_map THEN [p EXCEPT !.just_map[r[2]].rule = rule] ELSE p

\* --------------------------------------------------- dependency validator
\* Position of the entry of subproof k through which r is reached: r itself
\* when r is a direct line of k, else the nested subproof of k that holds r.
RECURSIVE entry_in(_, _, _)
entry_in(p, k, r) ==
    LET c == containing_sub(p, r)
    IN IF c = -1 THEN None
       ELSE IF c = k THEN r
       ELSE IF c = Root THEN None
       ELSE entry_in(p, k, SubRef(c))

\* Enclosing subproofs of r, innermost first, up to the root.
RECURSIVE ancestors(_, _)
ancestors(p, r) ==
    LET c == containing_sub(p, r)
    IN IF c = -1 THEN <<>>
       ELSE IF c = Root THEN <<Root>>
       ELSE <<c>> \o ancestors(p, SubRef(c))

\* can_reference_dep(a, b): b is a premise of a subproof enclosing a, or a line
\* (step or subproof) of such a subproof that precedes a's own entry in it.
can_reference_dep(p, a, b) ==
    /\ lookup_pj(p, a)
    /\ \E i \in 1..Len(ancestors(p, a)) :
          LET k == ancestors(p, a)[i]
              e == entry_in(p, k, a)
          IN \/ IsPrem(b) /\ b \in Range(premises(p, k)) /\ b # a
             \/ /\ ~IsPrem(b)
                /\ b \in Range(lines(p, k))
                /\ e \in Range(lines(p, k))
                /\ IndexOf(lines(p, k), b) < IndexOf(lines(p, k), e)

\* ------------------------------------------------------------ ProofUiData
\* The lines of subproof k in pre-order, each with its depth: a subproof's
\* premises, then its lines, descending into a nested subproof in place.
RECURSIVE lineinfo_sub(_, _, _), lineinfo_lines(_, _, _, _)
lineinfo_lines(p, ls, i, depth) ==
    IF i > Len(ls) THEN <<>>
    ELSE (IF IsSub(ls[i]) THEN lineinfo_sub(p, ls[i][2], depth + 1)
                          ELSE << <<ls[i], depth>> >>)
         \o lineinfo_lines(p, ls, i + 1, depth)

lineinfo_sub(p, k, depth) ==
    [i \in 1..Len(premises(p, k)) |-> <<premises(p, k)[i], depth>>]
    \o lineinfo_lines(p, lines(p, k), 1, depth)

\* Mutant of calculate_lineinfo: the line counter starts at 0.
calculate_lineinfo_from_zero(output, p) ==
    LET seq == lineinfo_sub(p, Root, 0)
        met == {seq[i][1] : i \in 1..Len(seq)}
    IN [r \in DOMAIN output \cup met |->
          IF r \in met
          THEN LET i == CHOOSE j \in 1..Len(seq) : seq[j][1] = r IN <<i - 1, seq[i][2]>>
          ELSE output[r]]

\* calculate_lineinfo(output, top_level_proof, &mut 1, &mut 0): every line met
\* is inserted with (line number, depth); entries of other keys stay.
calculate_lineinfo(output, p) ==
    LET seq == lineinfo_sub(p, Root, 0)
        met == {seq[i][1] : i \in 1..Len(seq)}
    IN [r \in DOMAIN output \cup met |->
          IF r \in met
          THEN LET i == CHOOSE j \in 1..Len(seq) : seq[j][1] = r IN <<i, seq[i][2]>>
          ELSE output[r]]

\* initialize_inputs: the display string of the expression of every line
\* reachable from the root.
initialize_inputs(p) ==
    LET seq == lineinfo_sub(p, Root, 0)
    IN [r \in {seq[i][1] : i \in 1..Len(seq)} |->
          IF IsPrem(r) THEN p.prem_map[r[2]] ELSE p.just_map[r[2]].expr]

\* ProofUiData::from_proof
from_proof(p) ==
    [ref_to_line_depth |-> calculate_lineinfo(EmptyMap, p),
     ref_to_input |-> initialize_inputs(p)]

\* --------------------------------------------------------- may_remove_line
\* may_remove_line panics when the reference does not resolve.
may_remove_line_panics(p, proofref) == ~lookup_pj(p, proofref)

\* Mutant of may_remove_line: the counts are compared with >= 1.
may_remove_line_off_by_one(p, proofref) ==
    LET is_premise == IsPrem(proofref)
        parent == parent_of_line(p, proofref)
        k == IF parent # None /\ lookup_subproof(p, parent) THEN parent[2] ELSE Root
    IN \/ is_premise /\ Len(premises(p, k)) >= 1
       \/ ~is_premise /\ Len(lines(p, k)) >= 1

may_remove_line(p, proofref) ==
    LET is_premise == IsPrem(proofref)
        parent == parent_of_line(p, proofref)
        k == IF parent # None /\ lookup_subproof(p, parent) THEN parent[2] ELSE Root
    IN \/ is_premise /\ Len(premises(p, k)) > 1
       \/ ~is_premise /\ Len(lines(p, k)) > 1

\* remove_line_if_allowed: the UI entries of the line go first, then the line
\* itself when may_remove_line allows it.  Yields the proof, the UI data and
\* whether may_remove_line panicked.
remove_line_if_allowed(p, pud, proofref) ==
    LET pud1 == [ref_to_line_depth |-> MapRemove(pud.ref_to_line_depth, proofref),
                 ref_to_input |-> MapRemove(pud.ref_to_input, proofref)]
    IN IF may_remove_line_panics(p, proofref)
       THEN [prf |-> p, pud |-> pud1, panicked |-> TRUE]
       ELSE IF may_remove_line(p, proofref)
       THEN [prf |-> remove_line(p, proofref), pud |-> pud1, panicked |-> FALSE]
       ELSE [prf |-> p, pud |-> pud1, panicked |-> FALSE]

\* ------------------------------------------------------ toggle_dep_or_sdep
RECURSIVE sorted_seq(_)
sorted_seq(S) ==
    IF S = {} THEN <<>>
    ELSE LET m == CHOOSE x \in S : \A y \in S \ {x} : RefLess(x, y)
         IN <<m>> \o sorted_seq(S \ {m})

\* Mutant of toggle_dep_or_sdep: the message flips the citation, whatever `to`.
toggle_dep_or_sdep_flipping(dep, deps, to) ==
    sorted_seq(IF dep \in Range(deps) THEN Range(deps) \ {dep} ELSE Range(deps) \cup {dep})

\* Mutant of toggle_dep_or_sdep: dep is pushed onto, or filtered out of, the
\* list as it stands.
toggle_dep_or_sdep_in_place(dep, deps, to) ==
    IF to THEN (IF dep \in Range(deps) THEN deps ELSE Append(deps, dep))
    ELSE SelectSeq(deps, LAMBDA x : x # dep)

\* The list becomes a BTreeSet, dep is inserted or removed, and the set is
\* written back in ascending order.
toggle_dep_or_sdep(dep, deps, to) ==
    sorted_seq(IF to THEN Range(deps) \cup {dep} ELSE Range(deps) \ {dep})

\* ------------------------------------------------------------------ state
VARIABLES
    prf,            \* ProofWidget.prf
    pud,            \* ProofWidget.pud: [ref_to_line_depth, ref_to_input]
    selected_line,  \* ProofWidget.selected_line: None or a line reference
    panicked,       \* update has panicked: the widget handles nothing more
    issued,         \* history: every reference the proof has handed out
    PROOF_WIDGET_ID_ALLOCATOR,  \* the counter of next_proof_widget_id
    proofids,       \* ProofWidget.proofid of every widget created, in order
    s,              \* the string expand works on
    output,         \* render_proof's output: the rows (Html, bool) of a subproof
    app,            \* App: [tabcontainer_link, menuwidget_link, proofs]
    tabbedcontainer,  \* TabbedContainer: [tabs, current_tab]
    menuwidget,     \* MenuWidget: [next_tab_idx, filepicker_visible, filename_channel]
    queue,          \* the messages sent to each component and not yet handled
    browser         \* file readers, mounted widgets, last download, halt

vars == <<prf, pud, selected_line, panicked, issued,
          PROOF_WIDGET_ID_ALLOCATOR, proofids, s, output,
          app, tabbedcontainer, menuwidget, queue, browser>>

\* The components around one ProofWidget, and the state in which none of
\* them is mounted: a widget on its own.
components == <<app, tabbedcontainer, menuwidget, queue, browser>>
unmounted ==
    /\ app = <<>>
    /\ tabbedcontainer = <<>>
    /\ menuwidget = <<>>
    /\ queue = <<>>
    /\ browser = <<>>

\* A message, every field present; a field its kind does not carry holds a
\* default ("-", FALSE, None).
Msg(kind, what, after, relative_to, ref, rule, to, dep, text) ==
    [kind |-> kind, what |-> what, after |-> after, relative_to |-> relative_to,
     ref |-> ref, rule |-> rule, to |-> to, dep |-> dep, text |-> text]

NopMsg == Msg("Nop", "-", FALSE, "-", None, "-", FALSE, None, "-")
LineChangedMsg(r, input) == Msg("LineChanged", "-", FALSE, "-", r, "-", FALSE, None, input)
InsertMsg(what, after, relative_to, r) ==
    Msg("Insert", what, after, relative_to, r, "-", FALSE, None, "-")
DeleteMsg(what, r) == Msg("Delete", what, FALSE, "-", r, "-", FALSE, None, "-")
SetRuleMsg(rule, r) == Msg("SetRule", "-", FALSE, "-", r, rule, FALSE, None, "-")
SelectMsg(r) == Msg("Select", "-", FALSE, "-", r, "-", FALSE, None, "-")
SetDependencyMsg(to, dep, r) == Msg("SetDependency", "-", FALSE, "-", r, "-", to, dep, "-")
CallOnProofMsg == Msg("CallOnProof", "-", FALSE, "-", None, "-", FALSE, None, "-")

\* The premises, steps and nested subproofs the pool holds.
LiveRefs(p) ==
    {PremRef(k) : k \in DOMAIN p.prem_map} \cup {JustRef(k) : k \in DOMAIN p.just_map}
    \cup {SubRef(k) : k \in DOMAIN p.sub_map \ {Root}}

\* Mutant of create_prf: the premise gets the placeholder of an inserted one.
create_prf_with_placeholder ==
    add_step(add_premise(NewProof, Root, BlankPremise), Root,
             Justification(BlankExpr, Reit, <<>>, <<>>))

\* ProofWidget::create with data: None: one blank premise and one reiterate
\* step, the UI data of that proof, nothing selected, then update(Nop).
create_prf == add_step(add_premise(NewProof, Root, BlankExpr), Root,
                       Justification(BlankExpr, Reit, <<>>, <<>>))

Init ==
    /\ prf = create_prf
    /\ pud = [from_proof(create_prf) EXCEPT
                 !.ref_to_line_depth = calculate_lineinfo(@, create_prf)]
    /\ selected_line = None
    /\ panicked = FALSE
    /\ issued = LiveRefs(create_prf)
    /\ PROOF_WIDGET_ID_ALLOCATOR = 1
    /\ proofids = <<0>>
    /\ s = <<>>
    /\ output = <<>>
    /\ unmounted

\* ----------------------------------------------------------------- update
\* Each handler yields the widget after the match arm: [prf, pud,
\* selected_line, panicked, ret, returned]; `returned` marks the early return
\* that skips the recomputation of the line info.
\* `called` lists the proofs a continuation was invoked with, in order.
Result(p, u, sel, pan, ret, returned) ==
    [prf |-> p, pud |-> u, selected_line |-> sel, panicked |-> pan,
     ret |-> ret, returned |-> returned, called |-> <<>>]

handle_Nop(p, u, sel) == Result(p, u, sel, FALSE, verbose, FALSE)

\* Mutant of handle_LineChanged: text that does not parse blanks the
\* expression of the line.
handle_LineChanged_blanking(p, u, sel, r, input) ==
    LET u1 == [u EXCEPT !.ref_to_input = MapInsert(@, r, input)]
        e == IF parse(input) = NoExpr THEN BlankExpr ELSE parse(input)
        p1 == IF IsPrem(r) THEN with_mut_premise_expr(p, r, e)
              ELSE with_mut_step_expr(p, r, e)
    IN Result(p1, u1, sel, FALSE, TRUE, FALSE)

handle_LineChanged(p, u, sel, r, input) ==
    LET u1 == [u EXCEPT !.ref_to_input = MapInsert(@, r, input)]
        e == parse(input)
        p1 == IF e = NoExpr THEN p
              ELSE IF IsPrem(r) THEN with_mut_premise_expr(p, r, e)
              ELSE with_mut_step_expr(p, r, e)
    IN Result(p1, u1, sel, FALSE, TRUE, FALSE)
\* Mutant of handle_Insert: the line the insert was relative to is selected
\* instead of the new line.
handle_Insert_selecting_relative(p, u, sel, what, after, relative_to, orig_ref) ==
    IF relative_to = "Subproof"
    THEN Result(p, u, sel, FALSE, verbose, TRUE)
    ELSE IF what = "Line"
    THEN IF IsPrem(orig_ref)
         THEN Result(add_premise_relative(p, BlankPremise, orig_ref, after), u,
                     orig_ref, FALSE, TRUE, FALSE)
         ELSE Result(add_step_relative(p, Justification(BlankStep, Reit, <<>>, <<>>),
                                       orig_ref, after), u,
                     orig_ref, FALSE, TRUE, FALSE)
    ELSE IF IsPrem(orig_ref)
         \* insertion_point.get().unwrap() on a premise reference
         THEN Result(p, u, sel, TRUE, verbose, TRUE)
         ELSE LET p1 == add_subproof_relative(p, orig_ref, after)
                  p2 == add_premise(p1, p.next_sub, BlankPremise)
                  p3 == add_step(p2, p.next_sub, Justification(BlankStep, Reit, <<>>, <<>>))
              IN Result(p3, u, orig_ref, FALSE, TRUE, FALSE)

\* Mutant of handle_Insert: the new line always goes after the line the
\* insert is relative to.
handle_Insert_always_after(p, u, sel, what, after, relative_to, orig_ref) ==
    IF relative_to = "Subproof"
    THEN Result(p, u, sel, FALSE, verbose, TRUE)
    ELSE IF what = "Line"
    THEN IF IsPrem(orig_ref)
         THEN Result(add_premise_relative(p, BlankPremise, orig_ref, TRUE), u,
                     PremRef(p.next_prem), FALSE, TRUE, FALSE)
         ELSE Result(add_step_relative(p, Justification(BlankStep, Reit, <<>>, <<>>),
                                       orig_ref, TRUE), u,
                     JustRef(p.next_just), FALSE, TRUE, FALSE)
    ELSE IF IsPrem(orig_ref)
         THEN Result(p, u, sel, TRUE, verbose, TRUE)
         ELSE LET p1 == add_subproof_relative(p, orig_ref, TRUE)
                  p2 == add_premise(p1, p.next_sub, BlankPremise)
                  p3 == add_step(p2, p.next_sub, Justification(BlankStep, Reit, <<>>, <<>>))
              IN Result(p3, u, PremRef(p.next_prem), FALSE, TRUE, FALSE)

\* Mutant of handle_Insert: the new subproof gets its premise and no step.
handle_Insert_without_step(p, u, sel, what, after, relative_to, orig_ref) ==
    IF relative_to = "Subproof"
    THEN Result(p, u, sel, FALSE, verbose, TRUE)
    ELSE IF what = "Line"
    THEN IF IsPrem(orig_ref)
         THEN Result(add_premise_relative(p, BlankPremise, orig_ref, after), u,
                     PremRef(p.next_prem), FALSE, TRUE, FALSE)
         ELSE Result(add_step_relative(p, Justification(BlankStep, Reit, <<>>, <<>>),
                                       orig_ref, after), u,
                     JustRef(p.next_just), FALSE, TRUE, FALSE)
    ELSE IF IsPrem(orig_ref)
         THEN Result(p, u, sel, TRUE, verbose, TRUE)
         ELSE LET p1 == add_subproof_relative(p, orig_ref, after)
                  p2 == add_premise(p1, p.next_sub, BlankPremise)
              IN Result(p2, u, PremRef(p.next_prem), FALSE, TRUE, FALSE)

handle_Insert(p, u, sel, what, after, relative_to, orig_ref) ==
    IF relative_to = "Subproof"
    THEN Result(p, u, sel, FALSE, verbose, TRUE)
    ELSE IF what = "Line"
    THEN IF IsPrem(orig_ref)
         THEN Result(add_premise_relative(p, BlankPremise, orig_ref, after), u,
                     PremRef(p.next_prem), FALSE, TRUE, FALSE)
         ELSE Result(add_step_relative(p, Justification(BlankStep, Reit, <<>>, <<>>),
                                       orig_ref, after), u,
                     JustRef(p.next_just), FALSE, TRUE, FALSE)
    ELSE IF IsPrem(orig_ref)
         \* insertion_point.get().unwrap() on a premise reference
         THEN Result(p, u, sel, TRUE, verbose, TRUE)
         ELSE LET p1 == add_subproof_relative(p, orig_ref, after)
                  p2 == add_premise(p1, p.next_sub, BlankPremise)
                  p3 == add_step(p2, p.next_sub, Justification(BlankStep, Reit, <<>>, <<>>))
              IN Result(p3, u, PremRef(p.next_prem), FALSE, TRUE, FALSE)

\* Delete { what: Line }: remove_line_if_allowed runs on the enclosing
\* subproof (with_mut_subproof) or, for a root-level line, on the proof; the
\* pool resolves the reference alike in both.
line_removed(r, sel) == Result(r.prf, r.pud, sel, r.panicked, TRUE, r.panicked)

handle_Delete_Line(p, u, sel, proofref) ==
    line_removed(remove_line_if_allowed(p, u, proofref), sel)

\* The proof with every citation of a line or subproof that is no longer in
\* the pool taken out of every step.
without_dangling(p) ==
    [p EXCEPT !.just_map =
        [k \in DOMAIN p.just_map |->
            [p.just_map[k] EXCEPT
                !.deps = SelectSeq(@, LAMBDA d : lookup_pj(p, d)),
                !.sdeps = SelectSeq(@, LAMBDA d : lookup_subproof(p, d))]]]

\* Mutant of handle_Delete_Subproof: the citations of what was removed are
\* cleaned out of the steps that stay.
handle_Delete_Subproof_cleaning(p, u, sel, proofref) ==
    IF parent_of_line(p, proofref) # None
    THEN Result(without_dangling(remove_subproof(p, parent_of_line(p, proofref))),
                u, sel, FALSE, TRUE, FALSE)
    ELSE Result(p, u, sel, FALSE, TRUE, FALSE)

\* Mutant of handle_Delete_Subproof: the outermost nested subproof around the
\* line is removed.
handle_Delete_Subproof_outermost(p, u, sel, proofref) ==
    IF parent_of_line(p, proofref) # None
    THEN Result(remove_subproof(p, SubRef(ancestors(p, proofref)[Len(ancestors(p, proofref)) - 1])),
                u, sel, FALSE, TRUE, FALSE)
    ELSE Result(p, u, sel, FALSE, TRUE, FALSE)

\* Mutant of handle_Delete_Subproof: for a line of the root, the root's own
\* lines are removed.
handle_Delete_Subproof_on_root(p, u, sel, proofref) ==
    LET parent == parent_of_line(p, proofref)
    IN IF parent # None
       THEN Result(remove_subproof(p, parent), u, sel, FALSE, TRUE, FALSE)
       ELSE Result([p EXCEPT !.sub_map[Root].line_list = <<>>], u, sel, FALSE, TRUE, FALSE)

\* Delete { what: Subproof }: the subproof enclosing the line is removed;
\* nothing happens for a line of the root.
handle_Delete_Subproof(p, u, sel, proofref) ==
    LET parent == parent_of_line(p, proofref)
    IN IF parent # None
       THEN Result(remove_subproof(p, parent), u, sel, FALSE, TRUE, FALSE)
       ELSE Result(p, u, sel, FALSE, TRUE, FALSE)

\* Mutant of handle_Delete: the two arms of the match are swapped.
handle_Delete_swapped(p, u, sel, what, proofref) ==
    IF what = "Line" THEN handle_Delete_Subproof(p, u, sel, proofref)
                     ELSE handle_Delete_Line(p, u, sel, proofref)

handle_Delete(p, u, sel, what, proofref) ==
    IF what = "Line" THEN handle_Delete_Line(p, u, sel, proofref)
                     ELSE handle_Delete_Subproof(p, u, sel, proofref)

handle_SetRule(p, u, sel, rule, proofref) ==
    Result(IF IsJust(proofref) THEN with_mut_step_rule(p, proofref, rule) ELSE p,
           u, proofref, FALSE, TRUE, FALSE)

handle_Select(p, u, sel, proofref) == Result(p, u, proofref, FALSE, TRUE, FALSE)

\* Mutant of handle_SetDependency: the list that is not toggled is emptied.
handle_SetDependency_emptying_other(p, u, sel, to, dep, proofref) ==
    LET k == proofref[2]
        p1 == IF IsJust(proofref) /\ k \in DOMAIN p.just_map
              THEN IF IsSub(dep)
                   THEN [p EXCEPT !.just_map[k].sdeps = toggle_dep_or_sdep(dep, @, to),
                                  !.just_map[k].deps = <<>>]
                   ELSE [p EXCEPT !.just_map[k].deps = toggle_dep_or_sdep(dep, @, to),
                                  !.just_map[k].sdeps = <<>>]
              ELSE p
    IN Result(p1, u, sel, FALSE, TRUE, FALSE)

handle_SetDependency(p, u, sel, to, dep, proofref) ==
    LET k == proofref[2]
        p1 == IF IsJust(proofref) /\ k \in DOMAIN p.just_map
              THEN IF IsSub(dep)
                   THEN [p EXCEPT !.just_map[k].sdeps = toggle_dep_or_sdep(dep, @, to)]
                   ELSE [p EXCEPT !.just_map[k].deps = toggle_dep_or_sdep(dep, @, to)]
              ELSE p
    IN Result(p1, u, sel, FALSE, TRUE, FALSE)

\* Mutant of handle_CallOnProof: the continuation is dropped without a call.
handle_CallOnProof_dropping(p, u, sel) == Result(p, u, sel, FALSE, verbose, FALSE)

\* f(&self.prf): the continuation reads the proof; ret stays as verbose set it.
handle_CallOnProof(p, u, sel) ==
    [Result(p, u, sel, FALSE, verbose, FALSE) EXCEPT !.called = <<p>>]

handle(p, u, sel, m) ==
    CASE m.kind = "Nop" -> handle_Nop(p, u, sel)
      [] m.kind = "LineChanged" -> handle_LineChanged(p, u, sel, m.ref, m.text)
      [] m.kind = "Insert" -> handle_Insert(p, u, sel, m.what, m.after, m.relative_to, m.ref)
      [] m.kind = "Delete" -> handle_Delete(p, u, sel, m.what, m.ref)
      [] m.kind = "SetRule" -> handle_SetRule(p, u, sel, m.rule, m.ref)
      [] m.kind = "Select" -> handle_Select(p, u, sel, m.ref)
      [] m.kind = "SetDependency" -> handle_SetDependency(p, u, sel, m.to, m.dep, m.ref)
      [] m.kind = "CallOnProof" -> handle_CallOnProof(p, u, sel)

\* update: the match arm, then the line info is recomputed when ret is set
\* and the arm did not return or panic.
recalculate_lineinfo(r) ==
    IF r.ret /\ ~r.returned
    THEN [r EXCEPT !.pud.ref_to_line_depth = calculate_lineinfo(@, r.prf)]
    ELSE r

update(p, u, sel, m) == recalculate_lineinfo(handle(p, u, sel, m))

\* ----------------------------------------------------------------- render
\* Mutant of render_dep_or_sdep_checkbox: the validator is not asked.
render_dep_or_sdep_checkbox_unchecked(p, sel, proofref) ==
    IF sel # None /\ IsJust(sel)
    THEN IF ~lookup_pj(p, sel) THEN "panic" ELSE "checkbox"
    ELSE "none"

\* render_dep_or_sdep_checkbox: a checkbox is rendered for proofref when the
\* selected line is a step and the validator accepts proofref as one of its
\* dependencies; looking the selected step up panics when it is not in prf.
render_dep_or_sdep_checkbox(p, sel, proofref) ==
    IF sel # None /\ IsJust(sel)
    THEN IF ~lookup_pj(p, sel) THEN "panic"
         ELSE IF can_reference_dep(p, sel, proofref) THEN "checkbox"
         ELSE "none"
    ELSE "none"

\* Mutant of action_options: the subproof inserts are offered on every line.
action_options_on_premises(p, proofref) ==
    (IF may_remove_line(p, proofref) THEN {"delete_line"} ELSE {})
    \cup (IF parent_of_line(p, proofref) # None THEN {"delete_subproof"} ELSE {})
    \cup {"insert_line_before_line", "insert_line_after_line",
          "insert_subproof_before_line", "insert_subproof_after_line"}

\* The options of a line's action selector.
action_options(p, proofref) ==
    (IF may_remove_line(p, proofref) THEN {"delete_line"} ELSE {})
    \cup (IF parent_of_line(p, proofref) # None THEN {"delete_subproof"} ELSE {})
    \cup {"insert_line_before_line", "insert_line_after_line"}
    \cup (IF IsJust(proofref)
          THEN {"insert_subproof_before_line", "insert_subproof_after_line"}
          ELSE {})

\* handle_action: the message the action selector of line proofref sends
\* for the value chosen.
handle_action(value, proofref) ==
    CASE value = "delete_line" -> DeleteMsg("Line", proofref)
      [] value = "delete_subproof" -> DeleteMsg("Subproof", proofref)
      [] value = "insert_line_before_line" -> InsertMsg("Line", FALSE, "Line", proofref)
      [] value = "insert_line_after_line" -> InsertMsg("Line", TRUE, "Line", proofref)
      [] value = "insert_line_before_subproof" -> InsertMsg("Line", FALSE, "Subproof", proofref)
      [] value = "insert_line_after_subproof" -> InsertMsg("Line", TRUE, "Subproof", proofref)
      [] value = "insert_subproof_before_line" -> InsertMsg("Subproof", FALSE, "Line", proofref)
      [] value = "insert_subproof_after_line" -> InsertMsg("Subproof", TRUE, "Line", proofref)
      [] value = "insert_subproof_before_subproof" ->
            InsertMsg("Subproof", FALSE, "Subproof", proofref)
      [] value = "insert_subproof_after_subproof" ->
            InsertMsg("Subproof", TRUE, "Subproof", proofref)
      [] OTHER -> NopMsg

\* The value of a line's text input: its buffer, or the empty string.
input_value(u, proofref) ==
    IF proofref \in DOMAIN u.ref_to_input THEN u.ref_to_input[proofref] ELSE ""

\* Mutant of rule_feedback: the line is verified before its text is parsed.
rule_feedback_verifying_first(p, u, proofref) ==
    IF proofref \notin DOMAIN u.ref_to_input \/ input_value(u, proofref) = ""
    THEN [shown |-> {""}, verify_line |-> FALSE, prf |-> p]
    ELSE IF parse(u.ref_to_input[proofref]) = NoExpr
    THEN [shown |-> {"Parse error"}, verify_line |-> TRUE, prf |-> p]
    ELSE [shown |-> {"Correct", "Error (hover for details)"}, verify_line |-> TRUE,
          prf |-> p]

\* rule_feedback of render_proof_line: what the line shows (one of `shown`;
\* the verdict of verify_line is the rule checker's), whether verify_line
\* was called, and the proof after it (verify_line reads the proof).
rule_feedback(p, u, proofref) ==
    IF proofref \notin DOMAIN u.ref_to_input \/ input_value(u, proofref) = ""
    THEN [shown |-> {""}, verify_line |-> FALSE, prf |-> p]
    ELSE IF parse(u.ref_to_input[proofref]) = NoExpr
    THEN [shown |-> {"Parse error"}, verify_line |-> FALSE, prf |-> p]
    ELSE [shown |-> {"Correct", "Error (hover for details)"}, verify_line |-> TRUE,
          prf |-> p]

\* The lines render_proof renders: those reachable from the root, in order.
rendered_lines(p) ==
    LET seq == lineinfo_sub(p, Root, 0) IN [i \in 1..Len(seq) |-> seq[i][1]]

\* The subproofs render_proof descends into.
rendered_subproofs(p) == {SubRef(k) : k \in sub_descendants(p, Root) \ {Root}}

\* ----------------------------------------------------------------- action
\* One message handled by update.
\* The widget becomes what update left; the references it holds are issued.
becomes(r) ==
    /\ prf' = r.prf
    /\ pud' = r.pud
    /\ selected_line' = r.selected_line
    /\ panicked' = r.panicked
    /\ issued' = issued \cup LiveRefs(r.prf)
    /\ UNCHANGED <<PROOF_WIDGET_ID_ALLOCATOR, proofids, s, output, components>>

Update(m) ==
    /\ ~panicked
    /\ becomes(update(prf, pud, selected_line, m))

\* ------------------------------------------------------------ environment
\* Messages carry references the proof has issued, live or removed.
IssuedPJ(p) == {PremRef(n) : n \in 0..(p.next_prem - 1)} \cup
               {JustRef(n) : n \in 0..(p.next_just - 1)}
IssuedSub(p) == {SubRef(n) : n \in 1..(p.next_sub - 1)}

\* The insert stays within the keys the pool may issue.
insert_fits(p, what, relative_to, r) ==
    \/ relative_to = "Subproof"
    \/ what = "Line" /\ IsPrem(r) /\ p.next_prem < MaxPrem
    \/ what = "Line" /\ IsJust(r) /\ p.next_just < MaxJust
    \/ what = "Subproof" /\ IsPrem(r)
    \/ what = "Subproof" /\ IsJust(r) /\ p.next_prem < MaxPrem
          /\ p.next_just < MaxJust /\ p.next_sub <= MaxSub

edited(p, u) ==
    {r \in DOMAIN u.ref_to_input : u.ref_to_input[r] \in Texts}
    \cup {PremRef(k) : k \in {x \in DOMAIN p.prem_map : p.prem_map[x] \in Texts}}
    \cup {JustRef(k) : k \in {x \in DOMAIN p.just_map : p.just_map[x].expr \in Texts}}
ruled(p) == {k \in DOMAIN p.just_map : p.just_map[k].rule # Reit}
RECURSIVE sum_deps(_, _)
sum_deps(p, ks) ==
    IF ks = {} THEN 0
    ELSE LET k == CHOOSE x \in ks : TRUE
         IN Len(p.just_map[k].deps) + Len(p.just_map[k].sdeps) + sum_deps(p, ks \ {k})
total_deps(p) == sum_deps(p, DOMAIN p.just_map)
marks(p, u) == Cardinality(edited(p, u)) + Cardinality(ruled(p)) + total_deps(p)

\* dep is cited by step r, in the list a toggle of dep works on.
cites(p, r, dep) ==
    /\ IsJust(r) /\ r[2] \in DOMAIN p.just_map
    /\ dep \in Range(IF IsSub(dep) THEN p.just_map[r[2]].sdeps ELSE p.just_map[r[2]].deps)

SendNop == Update(NopMsg)

SendLineChanged ==
    \E r \in IssuedPJ(prf), input \in Texts :
        /\ r \in edited(prf, pud) \/ marks(prf, pud) < MaxMarks
        /\ Update(LineChangedMsg(r, input))

SendInsert ==
    \E what \in {"Line", "Subproof"}, after \in BOOLEAN,
       relative_to \in {"Line", "Subproof"}, r \in IssuedPJ(prf) :
        /\ lookup_pj(prf, r)
        /\ insert_fits(prf, what, relative_to, r)
        /\ Update(InsertMsg(what, after, relative_to, r))

SendDelete ==
    \E what \in {"Line", "Subproof"}, r \in IssuedPJ(prf) :
        Update(DeleteMsg(what, r))

SendSetRule ==
    \E rule \in Rules, r \in IssuedPJ(prf) :
        /\ rule = Reit \/ (IsJust(r) /\ r[2] \in ruled(prf)) \/ marks(prf, pud) < MaxMarks
        /\ Update(SetRuleMsg(rule, r))

SendSelect == \E r \in IssuedPJ(prf) : Update(SelectMsg(r))

SendSetDependency ==
    \E to \in BOOLEAN, dep \in IssuedPJ(prf) \cup IssuedSub(prf), r \in IssuedPJ(prf) :
        /\ to => (cites(prf, r, dep) \/ marks(prf, pud) < MaxMarks)
        /\ Update(SetDependencyMsg(to, dep, r))

SendCallOnProof == Update(CallOnProofMsg)

\* SetDependency as the dependency checkbox sends it: for the selected step
\* and a candidate the checkbox was rendered for.
checkbox_sends(p, sel, to, dep) ==
    /\ render_dep_or_sdep_checkbox(p, sel, dep) = "checkbox"
    /\ dep \in Range(rendered_lines(p)) \cup rendered_subproofs(p)

SendCheckboxClick ==
    \E to \in BOOLEAN, dep \in IssuedPJ(prf) \cup IssuedSub(prf) :
        /\ checkbox_sends(prf, selected_line, to, dep)
        /\ to => (cites(prf, selected_line, dep) \/ marks(prf, pud) < MaxMarks)
        /\ Update(SetDependencyMsg(to, dep, selected_line))

Next ==
    \/ SendNop
    \/ SendLineChanged
    \/ SendInsert
    \/ SendDelete
    \/ SendSetRule
    \/ SendSelect
    \/ SendSetDependency
    \/ SendCallOnProof

Spec == Init /\ [][Next]_vars

\* The widget when SetDependency comes from the dependency checkboxes only.
NextCheckbox ==
    \/ SendNop
    \/ SendLineChanged
    \/ SendInsert
    \/ SendDelete
    \/ SendSetRule
    \/ SendSelect
    \/ SendCheckboxClick
    \/ SendCallOnProof

SpecCheckbox == Init /\ [][NextCheckbox]_vars

\* -------------------------------------------------------------- documents
\* A persisted document: the tree, its lines named by document-local ids
\* (<<"P", id>>, <<"J", id>>, <<"S", id>>), every premise with its text, every
\* step with its text, rule name and the two lists of cited ids.
\*   doc = [prem_map, just_map, sub_map], shaped like the pool's maps.
MaxDepLen == 3

\* Display strings of the expressions a proof may hold; any other text of a
\* document is malformed.
Expressions == {BlankExpr, BlankPremise, BlankStep, "A"}

\* The lines and the subproofs of a tree, in document order.
doc_lines(d) == rendered_lines(d)
doc_subproofs(d) == rendered_subproofs(d)

\* The subproofs in the order their first premise comes in the document.
first_line(d, sr) == IndexOf(doc_lines(d), premises(d, sr[2])[1])

\* Deserialization fails on an unknown rule name, on a citation of an id the
\* document does not hold, and on malformed expression text.
malformed(d) ==
    LET held == Range(doc_lines(d))
        subs == doc_subproofs(d)
    IN \/ \E r \in held :
             IF IsPrem(r) THEN d.prem_map[r[2]] \notin Expressions
             ELSE \/ d.just_map[r[2]].expr \notin Expressions
                  \/ d.just_map[r[2]].rule \notin Rules
                  \/ ~(Range(d.just_map[r[2]].deps) \subseteq held)
                  \/ ~(Range(d.just_map[r[2]].sdeps) \subseteq subs)
       \/ \E sr \in subs : premises(d, sr[2]) = <<>>

\* The pool reference a loaded line or subproof gets: keys are allocated per
\* kind in document order.
loaded_ref(d, r) ==
    IF IsSub(r)
    THEN SubRef(1 + Cardinality({x \in doc_subproofs(d) : first_line(d, x) < first_line(d, r)}))
    ELSE LET seq == doc_lines(d)
         IN <<r[1], Cardinality({i \in 1..(IndexOf(seq, r) - 1) : seq[i][1] = r[1]})>>

loaded_seq(d, refs) == [i \in 1..Len(refs) |-> loaded_ref(d, refs[i])]

\* The document id a pool reference of the loaded proof came from.
source_ref(d, r) ==
    CHOOSE x \in Range(doc_lines(d)) \cup doc_subproofs(d) \cup {SubRef(Root)} :
        IF x = SubRef(Root) THEN r = SubRef(Root) ELSE loaded_ref(d, x) = r

\* proof_from_xml on a well-formed document.
loaded_proof(d) ==
    LET ps == {r \in Range(doc_lines(d)) : IsPrem(r)}
        js == {r \in Range(doc_lines(d)) : IsJust(r)}
        ss == doc_subproofs(d)
    IN [prem_map |-> [k \in 0..(Cardinality(ps) - 1) |->
                        d.prem_map[source_ref(d, PremRef(k))[2]]],
        just_map |-> [k \in 0..(Cardinality(js) - 1) |->
                        LET j == d.just_map[source_ref(d, JustRef(k))[2]]
                        IN Justification(j.expr, j.rule, loaded_seq(d, j.deps),
                                         loaded_seq(d, j.sdeps))],
        sub_map |-> [k \in 0..Cardinality(ss) |->
                        LET sub == d.sub_map[source_ref(d, SubRef(k))[2]]
                        IN [premise_list |-> loaded_seq(d, sub.premise_list),
                            line_list |-> loaded_seq(d, sub.line_list)]],
        next_prem |-> Cardinality(ps), next_just |-> Cardinality(js),
        next_sub |-> Cardinality(ss) + 1]

\* No proof: a pool without any subproof.
NoProof ==
    [prem_map |-> EmptyMap, just_map |-> EmptyMap, sub_map |-> EmptyMap,
     next_prem |-> 0, next_just |-> 0, next_sub |-> 0]

\* proof_from_xml: Ok(proof) or Err.
proof_from_xml(d) ==
    IF malformed(d) THEN [ok |-> FALSE, prf |-> NoProof]
    ELSE [ok |-> TRUE, prf |-> loaded_proof(d)]

\* ------------------------------------------------------------ serializer
\* The id a reference is written with: a line gets its line number, a
\* subproof its rank among the subproofs; a reference that is not in the
\* tree is written with an id no line or subproof of the document has.
saved_ref(p, r) ==
    IF IsSub(r)
    THEN IF r \in rendered_subproofs(p)
         THEN SubRef(1 + Cardinality({x \in rendered_subproofs(p) :
                                         first_line(p, x) < first_line(p, r)}))
         ELSE SubRef(-1)
    ELSE IF r \in Range(rendered_lines(p))
         THEN <<r[1], IndexOf(rendered_lines(p), r)>>
         ELSE <<r[1], 0>>

saved_seq(p, refs) == [i \in 1..Len(refs) |-> saved_ref(p, refs[i])]

\* The subproof of the tree that is written with id k.
saved_subproof(p, k) ==
    IF k = Root THEN Root
    ELSE (CHOOSE x \in rendered_subproofs(p) : saved_ref(p, x) = SubRef(k))[2]

\* xml_from_proof_and_metadata_with_hash: the tree, every premise with its
\* text, every step with its text, rule name and lists of cited ids.
xml_from_proof(p) ==
    LET seq == rendered_lines(p)
    IN [prem_map |-> [n \in {i \in 1..Len(seq) : IsPrem(seq[i])} |-> p.prem_map[seq[n][2]]],
        just_map |-> [n \in {i \in 1..Len(seq) : IsJust(seq[i])} |->
                        LET j == p.just_map[seq[n][2]]
                        IN Justification(j.expr, j.rule, saved_seq(p, j.deps),
                                         saved_seq(p, j.sdeps))],
        sub_map |-> [k \in 0..Cardinality(rendered_subproofs(p)) |->
                        LET sub == p.sub_map[saved_subproof(p, k)]
                        IN [premise_list |-> saved_seq(p, sub.premise_list),
                            line_list |-> saved_seq(p, sub.line_list)]]]

\* ProofWidgetProps.data: None, or Some(bytes of a document).
NoDoc == [prem_map |-> EmptyMap, just_map |-> EmptyMap, sub_map |-> EmptyMap]
NoData == [some |-> FALSE, doc |-> NoDoc]
SomeData(d) == [some |-> TRUE, doc |-> d]

\* The widget create builds around proof p: pud from the proof, nothing
\* selected, then update(Nop).
widget_of(r) ==
    [prf |-> r.prf, pud |-> r.pud, selected_line |-> r.selected_line,
     panicked |-> r.panicked]

\* Mutant of create: a document that fails to load gives the default proof.
create_defaulting(data) ==
    LET loaded == proof_from_xml(data.doc)
        p == IF data.some /\ loaded.ok THEN loaded.prf ELSE create_prf
    IN widget_of(update(p, from_proof(p), None, NopMsg))

\* ProofWidget::create: the proof is loaded from data (unwrap panics on Err)
\* or built blank; a panic leaves no widget.
create(data) ==
    LET loaded == proof_from_xml(data.doc)
        p == IF data.some THEN loaded.prf ELSE create_prf
    IN IF data.some /\ ~loaded.ok
       THEN [prf |-> NoProof,
             pud |-> [ref_to_line_depth |-> EmptyMap, ref_to_input |-> EmptyMap],
             selected_line |-> None,
             panicked |-> TRUE]
       ELSE widget_of(update(p, from_proof(p), None, NopMsg))

\* --------------------------------------------------- documents of the model
\* Two trees over the ids P1, P2, J3, J4 (and S1): a flat one, and one whose
\* first line is a subproof; step J4 carries the rule, the lists and the text.
RECURSIVE SeqsUpTo(_, _)
SeqsUpTo(S, n) ==
    IF n = 0 THEN {<<>>}
    ELSE SeqsUpTo(S, n - 1) \cup
         {Append(q, x) : q \in {y \in SeqsUpTo(S, n - 1) : Len(y) = n - 1}, x \in S}

Doc(nested, text, rule, deps, sdeps) ==
    [prem_map |-> (1 :> BlankExpr) @@ (2 :> BlankExpr),
     just_map |-> (3 :> Justification(BlankExpr, Reit, <<>>, <<>>)) @@
                  (4 :> Justification(text, rule, deps, sdeps)),
     sub_map |-> IF nested
                 THEN (Root :> [premise_list |-> <<PremRef(1)>>,
                                line_list |-> <<SubRef(1), JustRef(4)>>]) @@
                      (1 :> [premise_list |-> <<PremRef(2)>>, line_list |-> <<JustRef(3)>>])
                 ELSE (Root :> [premise_list |-> <<PremRef(1), PremRef(2)>>,
                                line_list |-> <<JustRef(3), JustRef(4)>>])]

\* Documents whose step J4 holds any ids in its lists, in any order, with
\* repetitions.
ListDocs ==
    {Doc(nested, BlankExpr, Reit, deps, sdeps) :
        nested \in BOOLEAN,
        deps \in SeqsUpTo({PremRef(1), PremRef(2), JustRef(3)}, MaxDepLen),
        sdeps \in SeqsUpTo({SubRef(1)}, MaxDepLen - 1)}

\* Documents whose step J4 has a rule other than the default, and text.
RuleDocs == {Doc(nested, "A", "AndIntro", <<>>, <<>>) : nested \in BOOLEAN}

\* Malformed documents: an unknown rule name, a citation of an id that is
\* not in the document, malformed expression text.
BadDocs ==
    {Doc(nested, BlankExpr, "NoSuchRule", <<>>, <<>>) : nested \in BOOLEAN}
    \cup {Doc(nested, BlankExpr, Reit, <<PremRef(9)>>, <<>>) : nested \in BOOLEAN}
    \cup {Doc(nested, "A &", Reit, <<>>, <<>>) : nested \in BOOLEAN}

Documents == ListDocs \cup RuleDocs \cup BadDocs

\* ------------------------------------------------ a widget made from a file
\* The widget is w; its proofid comes from the allocator unless create
\* panicked before it got there.
starts(w) ==
    /\ prf = w.prf
    /\ pud = w.pud
    /\ selected_line = w.selected_line
    /\ panicked = w.panicked
    /\ issued = LiveRefs(w.prf)
    /\ PROOF_WIDGET_ID_ALLOCATOR = (IF w.panicked THEN 0 ELSE 1)
    /\ proofids = (IF w.panicked THEN <<>> ELSE <<0>>)
    /\ s = <<>>
    /\ output = <<>>
    /\ unmounted

InitLoaded == \E d \in Documents : starts(create(SomeData(d)))

SpecLoaded == InitLoaded /\ [][Next]_vars

\* ----------------------------------------- a widget on a nested document
\* A tree with a subproof in a subproof, over the ids P1 .. J6, S1, S2:
\*   P1 | S1 [ P2 | S2 [ P3 | J4 ], J5 ], J6
\* With cited, J5 cites J4 and S2, and J6 cites P3 and S1.
NestedDoc(cited) ==
    [prem_map |-> (1 :> BlankExpr) @@ (2 :> BlankExpr) @@ (3 :> BlankExpr),
     just_map |->
        (4 :> Justification(BlankExpr, Reit, <<>>, <<>>)) @@
        (5 :> Justification(BlankExpr, Reit,
                            IF cited THEN <<JustRef(4)>> ELSE <<>>,
                            IF cited THEN <<SubRef(2)>> ELSE <<>>)) @@
        (6 :> Justification(BlankExpr, Reit,
                            IF cited THEN <<PremRef(3)>> ELSE <<>>,
                            IF cited THEN <<SubRef(1)>> ELSE <<>>)),
     sub_map |->
        (Root :> [premise_list |-> <<PremRef(1)>>, line_list |-> <<SubRef(1), JustRef(6)>>]) @@
        (1 :> [premise_list |-> <<PremRef(2)>>, line_list |-> <<SubRef(2), JustRef(5)>>]) @@
        (2 :> [premise_list |-> <<PremRef(3)>>, line_list |-> <<JustRef(4)>>])]

NestedDocs == {NestedDoc(cited) : cited \in BOOLEAN}

InitNested == \E d \in NestedDocs : starts(create(SomeData(d)))

\* The widget when only Select, Insert and Delete messages come.
NextSelect ==
    \/ SendSelect
    \/ SendInsert
    \/ SendDelete

SpecSelect == Init /\ [][NextSelect]_vars

SpecNested == InitNested /\ [][NextSelect]_vars

\* ------------------------------------------------------- the application
\* Widgets the application creates in one session.
MaxWidgets == 3

\* Mutant of next_proof_widget_id: the counter is read and left as it is.
next_proof_widget_id_loading(allocator) ==
    [id |-> allocator, allocator |-> allocator]

\* next_proof_widget_id: fetch_add(1) yields the old value of the counter
\* (a usize, which MaxWidgets keeps far from wrapping around).
next_proof_widget_id(allocator) ==
    [id |-> allocator, allocator |-> allocator + 1]

\* The widget w was created for a new tab and is the widget the variables
\* follow from now on; a create that panicked allocated no id.
created(w) ==
    /\ prf' = w.prf
    /\ pud' = w.pud
    /\ selected_line' = w.selected_line
    /\ panicked' = w.panicked
    /\ issued' = LiveRefs(w.prf)
    /\ IF w.panicked
       THEN UNCHANGED <<PROOF_WIDGET_ID_ALLOCATOR, proofids>>
       ELSE /\ proofids' = Append(proofids, next_proof_widget_id(PROOF_WIDGET_ID_ALLOCATOR).id)
            /\ PROOF_WIDGET_ID_ALLOCATOR' =
                  next_proof_widget_id(PROOF_WIDGET_ID_ALLOCATOR).allocator
    /\ UNCHANGED <<s, output, components>>

CreateWidget(data) ==
    /\ ~panicked
    /\ PROOF_WIDGET_ID_ALLOCATOR < MaxWidgets
    /\ created(create(data))

\* File > New: a tab with a ProofWidget without data.
FileNew == CreateWidget(NoData)

\* File > Open, once the file is read: a tab with a ProofWidget on its bytes.
FileOpen(d) == CreateWidget(SomeData(d))

\* The application before any proof tab is made.
InitApp ==
    /\ prf = NoProof
    /\ pud = [ref_to_line_depth |-> EmptyMap, ref_to_input |-> EmptyMap]
    /\ selected_line = None
    /\ panicked = FALSE
    /\ issued = {}
    /\ PROOF_WIDGET_ID_ALLOCATOR = 0
    /\ proofids = <<>>
    /\ s = <<>>
    /\ output = <<>>
    /\ unmounted

NextApp ==
    \/ FileNew
    \/ \E d \in Documents : FileOpen(d)

SpecApp == InitApp /\ [][NextApp]_vars

\* ================================================================= macros
\* A string is the sequence of its characters; a macro is such a sequence
\* and a symbol is one character, written by its code point (U+22A5 is
\* the falsum sign, U+2194 the double arrow, U+2192 the arrow, U+2228 the
\* disjunction sign).

\* Mutant of TABLE: the row of "->" comes before the row of "<->".
TABLE_arrow_first ==
    << [symbol |-> "U+22A5", macros |-> << <<".", "c", "o", "n">>, <<"_", "|", "_">> >>],
       [symbol |-> "U+22A4", macros |-> << <<".", "t", "a", "u", "t">>, <<"^", "|", "^">> >>],
       [symbol |-> "U+00AC", macros |-> << <<".", "n", "o", "t">>, <<"~">> >>],
       [symbol |-> "U+2200", macros |-> << <<"f", "o", "r", "a", "l", "l">> >>],
       [symbol |-> "U+2203", macros |-> << <<"e", "x", "i", "s", "t", "s">> >>],
       [symbol |-> "U+2227", macros |-> << <<".", "a", "n", "d">>, <<"&">>, <<"/", "\\">> >>],
       [symbol |-> "U+2228", macros |-> << <<".", "o", "r">>, <<"|">>, <<"\\", "/">> >>],
       [symbol |-> "U+2192", macros |-> << <<".", "i", "m", "p", "l">>, <<"-", ">">> >>],
       [symbol |-> "U+2194", macros |-> << <<".", "b", "i", "c", "o", "n">>, <<"<", "-", ">">> >>],
       [symbol |-> "U+2261", macros |-> << <<".", "e", "q", "u", "i", "v">>, <<"=", "=", "=">> >>] >>

\* TABLE: the rows (symbol, macros), in the order of the source.
TABLE ==
    << [symbol |-> "U+22A5", macros |-> << <<".", "c", "o", "n">>, <<"_", "|", "_">> >>],
       [symbol |-> "U+22A4", macros |-> << <<".", "t", "a", "u", "t">>, <<"^", "|", "^">> >>],
       [symbol |-> "U+00AC", macros |-> << <<".", "n", "o", "t">>, <<"~">> >>],
       [symbol |-> "U+2200", macros |-> << <<"f", "o", "r", "a", "l", "l">> >>],
       [symbol |-> "U+2203", macros |-> << <<"e", "x", "i", "s", "t", "s">> >>],
       [symbol |-> "U+2227", macros |-> << <<".", "a", "n", "d">>, <<"&">>, <<"/", "\\">> >>],
       [symbol |-> "U+2228", macros |-> << <<".", "o", "r">>, <<"|">>, <<"\\", "/">> >>],
       [symbol |-> "U+2194", macros |-> << <<".", "b", "i", "c", "o", "n">>, <<"<", "-", ">">> >>],
       [symbol |-> "U+2192", macros |-> << <<".", "i", "m", "p", "l">>, <<"-", ">">> >>],
       [symbol |-> "U+2261", macros |-> << <<".", "e", "q", "u", "i", "v">>, <<"=", "=", "=">> >>] >>

\* str::replace: every match of from, found from the left and not
\* overlapping an earlier match, becomes the symbol.
RECURSIVE replace_first(_, _, _), replace(_, _, _)
\* Mutant of replace: only the leftmost match becomes the symbol.
replace_first(str, from, to) ==
    IF Len(str) < Len(from) THEN str
    ELSE IF SubSeq(str, 1, Len(from)) = from
    THEN <<to>> \o SubSeq(str, Len(from) + 1, Len(str))
    ELSE <<Head(str)>> \o replace_first(Tail(str), from, to)

replace(str, from, to) ==
    IF Len(str) < Len(from) THEN str
    ELSE IF SubSeq(str, 1, Len(from)) = from
    THEN <<to>> \o replace(SubSeq(str, Len(from) + 1, Len(str)), from, to)
    ELSE <<Head(str)>> \o replace(Tail(str), from, to)

\* The inner fold of expand: the macros of one row, in order.
RECURSIVE expand_macros(_, _, _, _)
expand_macros(str, symbol, macros, i) ==
    IF i > Len(macros) THEN str
    ELSE expand_macros(replace(str, macros[i], symbol), symbol, macros, i + 1)

\* The outer fold of expand: the rows of the table, in order.
RECURSIVE expand_rows(_, _, _)
expand_rows(str, table, i) ==
    IF i > Len(table) THEN str
    ELSE expand_rows(expand_macros(str, table[i].symbol, table[i].macros, 1),
                     table, i + 1)

expand(str) == expand_rows(str, TABLE, 1)

\* The strings expand is applied to: every string of at most MaxLen
\* characters over the characters of the symbolic macros, and every
\* concatenation of at most MaxPieces macros and letters.
MaxLen == 4
MaxPieces == 2
MacroChars == {"<", "-", ">", "_", "|", "^", "/", "\\", "=", "~", "&", "P"}
AllMacros == UNION {Range(TABLE[i].macros) : i \in 1..Len(TABLE)}
Pieces == AllMacros \cup {<<c>> : c \in MacroChars \cup {".", "o", "r", " "}}
Longer ==
    { <<"_", "|", "_", "|", "_">>, <<"^", "|", "^", "|", "^">>,
      <<"=", "=", "=", "=">>, <<"<", "-", ">", ">">>, <<"<", "<", "-", ">">>,
      <<"_", "|", "_", " ", "-", ">", " ", "(", "^", "|", "^", " ", ".", "b", "i",
        "c", "o", "n", " ", "~", "P", ")">> }
RECURSIVE Concatenations(_)
Concatenations(n) ==
    IF n = 0 THEN {<<>>}
    ELSE {a \o b : a \in Concatenations(n - 1), b \in Pieces \cup {<<>>}}
Inputs == SeqsUpTo(MacroChars, MaxLen) \cup Concatenations(MaxPieces) \cup Longer

\* The text entry holds an input that has not been expanded.
InitMacros ==
    /\ prf = NoProof
    /\ pud = [ref_to_line_depth |-> EmptyMap, ref_to_input |-> EmptyMap]
    /\ selected_line = None
    /\ panicked = FALSE
    /\ issued = {}
    /\ PROOF_WIDGET_ID_ALLOCATOR = 0
    /\ proofids = <<>>
    /\ s \in Inputs
    /\ output = <<>>
    /\ unmounted

\* expand is applied to the text.
Expand ==
    /\ s' = expand(s)
    /\ UNCHANGED <<prf, pud, selected_line, panicked, issued,
                   PROOF_WIDGET_ID_ALLOCATOR, proofids, output, components>>

NextMacros == Expand

SpecMacros == InitMacros /\ [][NextMacros]_vars

\* ========================================================== render_proof
\* A row of render_proof's output is (Html, bool): the bool tags the row
\* spacers.  The Html is named by what it shows.
Row(html, spacer) == [html |-> html, spacer |-> spacer]

\* The rows render_proof pushes for a subproof with the given premises and
\* lines at the given depth: a row per premise, the row of the subproof's
\* dependency checkbox, then a row per step and, for a nested subproof, a
\* row spacer, the rendered subproof and a row spacer.
RECURSIVE line_rows(_, _, _)
line_rows(ls, i, depth) ==
    IF i > Len(ls) THEN <<>>
    ELSE (IF IsSub(ls[i])
          THEN << Row(<<"row_spacer", depth + 1>>, TRUE),
                  Row(<<"render_proof", ls[i]>>, FALSE),
                  Row(<<"row_spacer", depth + 1>>, TRUE) >>
          ELSE << Row(<<"render_proof_line", ls[i]>>, FALSE) >>)
         \o line_rows(ls, i + 1, depth)

pushed_rows(prems, ls, depth) ==
    [i \in 1..Len(prems) |-> Row(<<"render_proof_line", prems[i]>>, FALSE)]
    \o << Row(<<"spacer", depth>>, FALSE) >>
    \o line_rows(ls, 1, depth)

\* The collapse loop, from index i on (the code counts from 0, the model
\* from 1): a row spacer that is last or is followed by a row spacer is
\* removed, and i goes up by one either way.  Yields the output and the
\* number of iterations made.
RECURSIVE collapse_loop_keeping_last(_, _, _), collapse_loop(_, _, _)
\* Mutant of collapse_loop: a row spacer is removed only when a row spacer
\* follows it.
collapse_loop_keeping_last(out, i, iterations) ==
    IF i <= Len(out)
    THEN IF out[i].spacer /\ i < Len(out) /\ out[i + 1].spacer
         THEN collapse_loop_keeping_last(SubSeq(out, 1, i - 1) \o SubSeq(out, i + 1, Len(out)),
                                         i + 1, iterations + 1)
         ELSE collapse_loop_keeping_last(out, i + 1, iterations + 1)
    ELSE [output |-> out, iterations |-> iterations]

collapse_loop(out, i, iterations) ==
    IF i <= Len(out)
    THEN IF out[i].spacer /\ (i = Len(out) \/ out[i + 1].spacer)
         THEN collapse_loop(SubSeq(out, 1, i - 1) \o SubSeq(out, i + 1, Len(out)),
                            i + 1, iterations + 1)
         ELSE collapse_loop(out, i + 1, iterations + 1)
    ELSE [output |-> out, iterations |-> iterations]

\* The subproofs whose rows are built: up to MaxRowPremises premises and up
\* to MaxRowLines lines, each line a step or a nested subproof, at depth 0
\* or 1.
MaxRowPremises == 2
MaxRowLines == 5
RowLines ==
    UNION {[1..n -> {"J", "S"}] : n \in 0..MaxRowLines}
RowInputs ==
    {pushed_rows([i \in 1..np |-> PremRef(i)],
                 [i \in 1..Len(kinds) |-> <<kinds[i], i>>], depth) :
        np \in 0..MaxRowPremises, kinds \in RowLines, depth \in 0..1}

\* render_proof has pushed the rows of a subproof.
InitRows ==
    /\ prf = NoProof
    /\ pud = [ref_to_line_depth |-> EmptyMap, ref_to_input |-> EmptyMap]
    /\ selected_line = None
    /\ panicked = FALSE
    /\ issued = {}
    /\ PROOF_WIDGET_ID_ALLOCATOR = 0
    /\ proofids = <<>>
    /\ s = <<>>
    /\ output \in RowInputs
    /\ unmounted

\* The collapse loop runs over the output.
Collapse ==
    /\ output' = collapse_loop(output, 1, 0).output
    /\ UNCHANGED <<prf, pud, selected_line, panicked, issued,
                   PROOF_WIDGET_ID_ALLOCATOR, proofids, s, components>>

NextRows == Collapse

SpecRows == InitRows /\ [][NextRows]_vars

\* ====================================== App, TabbedContainer, MenuWidget
\* The components around the proof widgets.  A ComponentLink is named by
\* the component it leads to; the link of a ProofWidget is the widget's
\* proofid.  Messages sent to a component wait in its queue and are
\* handled in the order sent; a click, a file choice or a FileReader event
\* is taken up only when every queue is empty.

\* "Untitled proof n" tabs made, and files opened, in one session.
MaxUntitled == 2
MaxReads == 2

\* The files the user can pick: a name and the document read from it.  Two
\* files share a name.
File(name, contents) == [name |-> name, contents |-> contents]
NoFile == File("-", NoDoc)
Files ==
    { File("a.bram", Doc(FALSE, "A", "AndIntro", <<>>, <<>>)),
      File("a.bram", Doc(TRUE, "A", "AndIntro", <<>>, <<>>)),
      File("b.bram", Doc(FALSE, BlankExpr, Reit, <<>>, <<>>)) }

\* Html of a tab: a ProofWidget with its data and the name its oncreate
\* callback registers, or the expression entry of the parser demo.
ProofWidgetHtml(data, name) ==
    [component |-> "ProofWidget", data |-> data, oncreate |-> name]
ExprEntryHtml == [component |-> "ExprEntry", data |-> NoData, oncreate |-> "-"]

resolution_fname == "resolution_example.bram"
resolution_example == Doc(TRUE, BlankExpr, Reit, <<>>, <<>>)

Untitled(n) ==
    CASE n = 1 -> "Untitled proof 1"
      [] n = 2 -> "Untitled proof 2"
      [] OTHER -> "Untitled proof 3"

\* AppMsg, TabbedContainerMsg, MenuWidgetMsg and the ProofWidgetMsg the
\* application sends.
TabbedContainerInitMsg == [kind |-> "TabbedContainerInit"]
MenuWidgetInitMsg == [kind |-> "MenuWidgetInit"]
CreateTabMsg(name, content) == [kind |-> "CreateTab", name |-> name, content |-> content]
RegisterProofNameMsg(name, link) ==
    [kind |-> "RegisterProofName", name |-> name, link |-> link]
GetProofFromCurrentTabMsg == [kind |-> "GetProofFromCurrentTab"]
SwitchTabMsg(idx) == [kind |-> "SwitchTab", idx |-> idx]
GetCurrentTabMsg(proofs) == [kind |-> "GetCurrentTab", proofs |-> proofs]
FileNewMsg == [kind |-> "FileNew"]
FileOpen1Msg == [kind |-> "FileOpen1"]
FileOpen2Msg(file) == [kind |-> "FileOpen2", file |-> file]
FileSaveMsg == [kind |-> "FileSave"]
MenuNopMsg == [kind |-> "Nop"]
CallOnProofTo(link, name) == [kind |-> "CallOnProof", link |-> link, name |-> name]

\* The tab of the parser demo holds no ProofWidget; nothing was saved yet.
NoWidget == -1
NoDownload == [name |-> "-", link |-> NoWidget]

\* A message on its way to a component.
Send(to, msg) == [to |-> to, msg |-> msg]

\* send_message: the messages join the queues of their components, in the
\* order sent.
RECURSIVE post(_, _, _)
post(q, sends, i) ==
    IF i > Len(sends) THEN q
    ELSE post([q EXCEPT ![sends[i].to] = Append(@, sends[i].msg)], sends, i + 1)

\* ------------------------------------------------------------ App::update
\* Mutant of App_update: MenuWidgetInit keeps the link and sends nothing.
App_update_without_first_tab(a, msg) ==
    CASE msg.kind = "TabbedContainerInit" ->
           [app |-> [a EXCEPT !.tabcontainer_link = TRUE], sends |-> <<>>]
      [] msg.kind = "MenuWidgetInit" ->
           [app |-> [a EXCEPT !.menuwidget_link = TRUE], sends |-> <<>>]
      [] msg.kind = "CreateTab" ->
           [app |-> a,
            sends |-> IF a.tabcontainer_link
                      THEN <<Send("TabbedContainer", CreateTabMsg(msg.name, msg.content))>>
                      ELSE <<>>]
      [] msg.kind = "RegisterProofName" ->
           [app |-> [a EXCEPT !.proofs = MapInsert(@, msg.name, msg.link)],
            sends |-> <<>>]
      [] OTHER ->
           [app |-> a,
            sends |-> IF a.tabcontainer_link
                      THEN <<Send("TabbedContainer", GetCurrentTabMsg(a.proofs))>>
                      ELSE <<>>]

\* App::update: the App after the message and the messages it sends.  The
\* closure handed to GetCurrentTab carries a clone of proofs and the save
\* continuation.  ExprChanged, which writes the two fields of the parser
\* demo that no other arm reads, is left out.
App_update(a, msg) ==
    CASE msg.kind = "TabbedContainerInit" ->
           [app |-> [a EXCEPT !.tabcontainer_link = TRUE], sends |-> <<>>]
      [] msg.kind = "MenuWidgetInit" ->
           [app |-> [a EXCEPT !.menuwidget_link = TRUE],
            sends |-> <<Send("MenuWidget", FileNewMsg)>>]
      [] msg.kind = "CreateTab" ->
           [app |-> a,
            sends |-> IF a.tabcontainer_link
                      THEN <<Send("TabbedContainer", CreateTabMsg(msg.name, msg.content))>>
                      ELSE <<>>]
      [] msg.kind = "RegisterProofName" ->
           [app |-> [a EXCEPT !.proofs = MapInsert(@, msg.name, msg.link)],
            sends |-> <<>>]
      [] OTHER ->
           [app |-> a,
            sends |-> IF a.tabcontainer_link
                      THEN <<Send("TabbedContainer", GetCurrentTabMsg(a.proofs))>>
                      ELSE <<>>]

\* ------------------------------------------------ TabbedContainer::update
\* Mutant of TabbedContainer_update: CreateTab also shows the new tab.
TabbedContainer_update_switching(tc, msg) ==
    CASE msg.kind = "SwitchTab" ->
           [tc |-> [tc EXCEPT !.current_tab = msg.idx], sends |-> <<>>,
            panicked |-> FALSE, render |-> TRUE]
      [] msg.kind = "CreateTab" ->
           [tc |-> [tabs |-> Append(tc.tabs, [name |-> msg.name, content |-> msg.content]),
                    current_tab |-> Len(tc.tabs)],
            sends |-> <<>>, panicked |-> FALSE, render |-> TRUE]
      [] OTHER ->
           [tc |-> tc, sends |-> <<>>, panicked |-> FALSE, render |-> FALSE]

\* TabbedContainer::update.  current_tab counts from 0, so the tab shown is
\* tabs[current_tab + 1] of the sequence; indexing past the end panics.
\* GetCurrentTab calls the closure App made: it looks the tab's name up in
\* its clone of proofs and sends CallOnProof to the link found.
TabbedContainer_update(tc, msg) ==
    CASE msg.kind = "SwitchTab" ->
           [tc |-> [tc EXCEPT !.current_tab = msg.idx], sends |-> <<>>,
            panicked |-> FALSE, render |-> TRUE]
      [] msg.kind = "CreateTab" ->
           [tc |-> [tc EXCEPT !.tabs = Append(@, [name |-> msg.name, content |-> msg.content])],
            sends |-> <<>>, panicked |-> FALSE, render |-> TRUE]
      [] OTHER ->
           IF tc.current_tab >= Len(tc.tabs)
           THEN [tc |-> tc, sends |-> <<>>, panicked |-> TRUE, render |-> FALSE]
           ELSE [tc |-> tc,
                 sends |-> IF tc.tabs[tc.current_tab + 1].name \in DOMAIN msg.proofs
                           THEN <<Send("ProofWidget",
                                       CallOnProofTo(msg.proofs[tc.tabs[tc.current_tab + 1].name],
                                                     tc.tabs[tc.current_tab + 1].name))>>
                           ELSE <<>>,
                 panicked |-> FALSE, render |-> FALSE]

\* TabbedContainer::view: a SwitchTab button per tab, with the tab's index.
tab_buttons(tc) == {SwitchTabMsg(i) : i \in 0..(Len(tc.tabs) - 1)}

\* ------------------------------------------------------ FileOpenHelper
\* A FileReader: the file it reads and its state; result() is the contents
\* once the read is done and null before that and after an error.
Reader(file, state) == [file |-> file, state |-> state]
null == NoFile.contents
result(reader) == IF reader.state = "DONE" THEN reader.file.contents ELSE null

\* Mutant of fileopen2: the read is started and nothing is sent on the
\* channel.
fileopen2_without_send(mw, readers, file) ==
    IF file = NoFile
    THEN [mw |-> [mw EXCEPT !.filepicker_visible = FALSE], readers |-> readers]
    ELSE [mw |-> [mw EXCEPT !.filepicker_visible = FALSE],
          readers |-> Append(readers, Reader(file, "LOADING"))]

\* FileOpenHelper::fileopen2: a new reader starts reading the first file of
\* the list, and (file name, reader) is sent on the channel.
fileopen2(mw, readers, file) ==
    IF file = NoFile
    THEN [mw |-> [mw EXCEPT !.filepicker_visible = FALSE], readers |-> readers]
    ELSE [mw |-> [mw EXCEPT !.filepicker_visible = FALSE,
                            !.filename_channel =
                                Append(@, [fname |-> file.name, reader |-> Len(readers) + 1])],
          readers |-> Append(readers, Reader(file, "LOADING"))]

\* file_open_closure, run by the onload event of any reader: recv takes the
\* oldest entry of the channel, and blocks when there is none; a tab is
\* made when the reader of that entry has a result.
file_open_closure(mw, readers) ==
    IF mw.filename_channel = <<>>
    THEN [mw |-> mw, sends |-> <<>>, blocked |-> TRUE]
    ELSE [mw |-> [mw EXCEPT !.filename_channel = Tail(@)],
          sends |-> IF result(readers[Head(mw.filename_channel).reader]) # null
                    THEN <<Send("App",
                                CreateTabMsg(Head(mw.filename_channel).fname,
                                    ProofWidgetHtml(
                                        SomeData(result(readers[Head(mw.filename_channel).reader])),
                                        Head(mw.filename_channel).fname)))>>
                    ELSE <<>>,
          blocked |-> FALSE]

\* ----------------------------------------------------- MenuWidget::update
\* The MenuWidget and the readers after the message, and the messages sent.
MenuWidget_update(mw, readers, msg) ==
    CASE msg.kind = "FileNew" ->
           [mw |-> [mw EXCEPT !.next_tab_idx = @ + 1], readers |-> readers,
            sends |-> <<Send("App",
                             CreateTabMsg(Untitled(mw.next_tab_idx),
                                 ProofWidgetHtml(NoData, Untitled(mw.next_tab_idx))))>>]
      [] msg.kind = "FileOpen1" ->
           [mw |-> [mw EXCEPT !.filepicker_visible = TRUE], readers |-> readers,
            sends |-> <<>>]
      [] msg.kind = "FileOpen2" ->
           [mw |-> fileopen2(mw, readers, msg.file).mw,
            readers |-> fileopen2(mw, readers, msg.file).readers,
            sends |-> <<>>]
      [] msg.kind = "FileSave" ->
           [mw |-> mw, readers |-> readers,
            sends |-> <<Send("App", GetProofFromCurrentTabMsg)>>]
      [] OTHER -> [mw |-> mw, readers |-> readers, sends |-> <<>>]

\* ---------------------------------------------------------------- actions
widget_vars == <<prf, pud, selected_line, panicked, issued, s, output>>

running == browser.halt = "no"
idle == running /\ \A c \in DOMAIN queue : queue[c] = <<>>

\* The queues without the message at the head of c's.
taken(c) == [queue EXCEPT ![c] = Tail(@)]

\* App handles its next message.
HandleApp ==
    /\ running /\ queue.App # <<>>
    /\ app' = App_update(app, Head(queue.App)).app
    /\ queue' = post(taken("App"), App_update(app, Head(queue.App)).sends, 1)
    /\ UNCHANGED <<tabbedcontainer, menuwidget, browser, widget_vars,
                   PROOF_WIDGET_ID_ALLOCATOR, proofids>>

\* The tab added last has no component yet and holds a ProofWidget.
unmounted_widget(tc, mounted) ==
    /\ Len(mounted) < Len(tc.tabs)
    /\ tc.tabs[Len(tc.tabs)].content.component = "ProofWidget"

\* TabbedContainer handles its next message; when it renders after that,
\* the ProofWidget of a new tab is created: it takes the next proofid and
\* its oncreate callback sends RegisterProofName to App.
HandleTabbedContainer ==
    /\ running /\ queue.TabbedContainer # <<>>
    /\ tabbedcontainer' = TabbedContainer_update(tabbedcontainer, Head(queue.TabbedContainer)).tc
    /\ IF unmounted_widget(tabbedcontainer', browser.mounted)
       THEN /\ PROOF_WIDGET_ID_ALLOCATOR' =
                   next_proof_widget_id(PROOF_WIDGET_ID_ALLOCATOR).allocator
            /\ proofids' = Append(proofids, next_proof_widget_id(PROOF_WIDGET_ID_ALLOCATOR).id)
            /\ browser' = [browser EXCEPT
                   !.mounted = Append(@, next_proof_widget_id(PROOF_WIDGET_ID_ALLOCATOR).id),
                   !.halt = IF TabbedContainer_update(tabbedcontainer,
                                    Head(queue.TabbedContainer)).panicked
                            THEN "panicked" ELSE @]
            /\ queue' = post(taken("TabbedContainer"),
                             TabbedContainer_update(tabbedcontainer,
                                 Head(queue.TabbedContainer)).sends
                             \o <<Send("App", RegisterProofNameMsg(
                                     tabbedcontainer'.tabs[Len(tabbedcontainer'.tabs)].content.oncreate,
                                     next_proof_widget_id(PROOF_WIDGET_ID_ALLOCATOR).id))>>, 1)
       ELSE /\ UNCHANGED <<PROOF_WIDGET_ID_ALLOCATOR, proofids>>
            /\ browser' = [browser EXCEPT
                   !.halt = IF TabbedContainer_update(tabbedcontainer,
                                    Head(queue.TabbedContainer)).panicked
                            THEN "panicked" ELSE @]
            /\ queue' = post(taken("TabbedContainer"),
                             TabbedContainer_update(tabbedcontainer,
                                 Head(queue.TabbedContainer)).sends, 1)
    /\ UNCHANGED <<app, menuwidget, widget_vars>>

\* MenuWidget handles its next message.
HandleMenuWidget ==
    /\ running /\ queue.MenuWidget # <<>>
    /\ menuwidget' = MenuWidget_update(menuwidget, browser.readers, Head(queue.MenuWidget)).mw
    /\ browser' = [browser EXCEPT !.readers =
           MenuWidget_update(menuwidget, browser.readers, Head(queue.MenuWidget)).readers]
    /\ queue' = post(taken("MenuWidget"),
                     MenuWidget_update(menuwidget, browser.readers, Head(queue.MenuWidget)).sends, 1)
    /\ UNCHANGED <<app, tabbedcontainer, widget_vars, PROOF_WIDGET_ID_ALLOCATOR, proofids>>

\* The ProofWidget a CallOnProof was sent to handles it: the save
\* continuation runs on its proof and offers the download.
HandleProofWidget ==
    /\ running /\ queue.ProofWidget # <<>>
    /\ browser' = [browser EXCEPT !.download =
           [name |-> Head(queue.ProofWidget).name, link |-> Head(queue.ProofWidget).link]]
    /\ queue' = taken("ProofWidget")
    /\ UNCHANGED <<app, tabbedcontainer, menuwidget, widget_vars,
                   PROOF_WIDGET_ID_ALLOCATOR, proofids>>

\* The user's clicks and file choices, each sending one message.
user_sends(to, msg) ==
    /\ idle
    /\ queue' = post(queue, <<Send(to, msg)>>, 1)
    /\ UNCHANGED <<app, tabbedcontainer, menuwidget, browser, widget_vars,
                   PROOF_WIDGET_ID_ALLOCATOR, proofids>>

ClickFileNew ==
    /\ menuwidget.next_tab_idx <= MaxUntitled
    /\ user_sends("MenuWidget", FileNewMsg)

ClickFileOpen == user_sends("MenuWidget", FileOpen1Msg)

ChooseFile ==
    /\ Len(browser.readers) < MaxReads
    /\ \E file \in Files \cup {NoFile} : user_sends("MenuWidget", FileOpen2Msg(file))

ClickFileSave == user_sends("MenuWidget", FileSaveMsg)

ClickTab == \E m \in tab_buttons(tabbedcontainer) : user_sends("TabbedContainer", m)

\* A read completes: the reader is done and its onload event runs the
\* closure.
Onload ==
    /\ idle
    /\ \E r \in 1..Len(browser.readers) :
          /\ browser.readers[r].state = "LOADING"
          /\ menuwidget' = file_open_closure(menuwidget,
                               [browser.readers EXCEPT ![r].state = "DONE"]).mw
          /\ browser' = [browser EXCEPT
                 !.readers[r].state = "DONE",
                 !.halt = IF file_open_closure(menuwidget,
                                 [browser.readers EXCEPT ![r].state = "DONE"]).blocked
                          THEN "blocked" ELSE @]
          /\ queue' = post(queue, file_open_closure(menuwidget,
                               [browser.readers EXCEPT ![r].state = "DONE"]).sends, 1)
    /\ UNCHANGED <<app, tabbedcontainer, widget_vars, PROOF_WIDGET_ID_ALLOCATOR, proofids>>

\* A read fails: the reader has no result and no onload event.
ReadFails ==
    /\ idle
    /\ \E r \in 1..Len(browser.readers) :
          /\ browser.readers[r].state = "LOADING"
          /\ browser' = [browser EXCEPT !.readers[r].state = "ERROR"]
    /\ UNCHANGED <<app, tabbedcontainer, menuwidget, queue, widget_vars,
                   PROOF_WIDGET_ID_ALLOCATOR, proofids>>

\* App::create and the first render: MenuWidget and TabbedContainer are
\* created and have emitted their oncreate callbacks, the TabbedContainer
\* holds the two tabs of App::view, and the ProofWidget of the first one
\* is created; the three messages reach App in any order that has the
\* TabbedContainer created before its child.
startup_messages ==
    { <<MenuWidgetInitMsg, TabbedContainerInitMsg, RegisterProofNameMsg(resolution_fname, 0)>>,
      <<TabbedContainerInitMsg, MenuWidgetInitMsg, RegisterProofNameMsg(resolution_fname, 0)>>,
      <<TabbedContainerInitMsg, RegisterProofNameMsg(resolution_fname, 0), MenuWidgetInitMsg>> }

InitComponents ==
    /\ prf = NoProof
    /\ pud = [ref_to_line_depth |-> EmptyMap, ref_to_input |-> EmptyMap]
    /\ selected_line = None
    /\ panicked = FALSE
    /\ issued = {}
    /\ PROOF_WIDGET_ID_ALLOCATOR = 1
    /\ proofids = <<0>>
    /\ s = <<>>
    /\ output = <<>>
    /\ app = [tabcontainer_link |-> FALSE, menuwidget_link |-> FALSE, proofs |-> EmptyMap]
    /\ tabbedcontainer =
          [tabs |-> << [name |-> resolution_fname,
                        content |-> ProofWidgetHtml(SomeData(resolution_example),
                                                    resolution_fname)],
                       [name |-> "Parser demo", content |-> ExprEntryHtml] >>,
           current_tab |-> 0]
    /\ menuwidget = [next_tab_idx |-> 1, filepicker_visible |-> FALSE,
                     filename_channel |-> <<>>]
    /\ \E msgs \in startup_messages :
          queue = [App |-> msgs, TabbedContainer |-> <<>>, MenuWidget |-> <<>>,
                   ProofWidget |-> <<>>]
    /\ browser = [readers |-> <<>>, mounted |-> <<0, NoWidget>>,
                  download |-> NoDownload, halt |-> "no"]

Handle ==
    \/ HandleApp
    \/ HandleTabbedContainer
    \/ HandleMenuWidget
    \/ HandleProofWidget

NextComponents ==
    \/ Handle
    \/ ClickFileNew
    \/ ClickFileOpen
    \/ ChooseFile
    \/ ClickFileSave
    \/ ClickTab
    \/ Onload
    \/ ReadFails

SpecComponents == InitComponents /\ [][NextComponents]_vars

\* Every message sent is handled in the end.
FairSpecComponents == InitComponents /\ [][NextComponents]_vars /\ WF_vars(Handle)

\* ================================================================= claims
\* The widget as update leaves it after handling m in the current state.
after(m) == update(prf, pud, selected_line, m)

\* Messages over the references the proof has issued.
DeleteMsgs == {DeleteMsg(what, r) : what \in {"Line", "Subproof"}, r \in IssuedPJ(prf)}
InsertMsgs ==
    {InsertMsg(what, after_, relative_to, r) :
        what \in {"Line", "Subproof"}, after_ \in BOOLEAN,
        relative_to \in {"Line", "Subproof"}, r \in {x \in IssuedPJ(prf) : lookup_pj(prf, x)}}

\* r is the only premise, or the only line, of the subproof that holds it.
SoleLine(p, r) ==
    /\ lookup_pj(p, r)
    /\ containing_sub(p, r) # -1
    /\ \/ IsPrem(r) /\ premises(p, containing_sub(p, r)) = <<r>>
       \/ IsJust(r) /\ lines(p, containing_sub(p, r)) = <<r>>

\* Line R lies in subproof sr or in a subproof nested in it.
inside_sub(p, sr, R) ==
    LET ks == sub_descendants(p, sr[2])
    IN \/ IsPrem(R) /\ R[2] \in prems_in(p, ks)
       \/ IsJust(R) /\ R[2] \in justs_in(p, ks)

\* ----------------------------------------------------------------------
\* C1: after any sequence of messages, every subproof of the document, the
\* root included, has at least one premise and at least one line.
C1_MinimumContent ==
    \A k \in sub_descendants(prf, Root) :
        Len(premises(prf, k)) >= 1 /\ Len(lines(prf, k)) >= 1

\* ----------------------------------------------------------------------
\* C2: a Delete { what: Line } aimed at the only premise or the only line of
\* a subproof is refused: update does not panic and every subproof has the
\* premise sequence and line sequence it had before.
C2_LastLineDeleteRefused ==
    \A r \in IssuedPJ(prf) :
        SoleLine(prf, r) =>
            /\ ~after(DeleteMsg("Line", r)).panicked
            /\ after(DeleteMsg("Line", r)).prf.sub_map = prf.sub_map

\* The first premise is still the root's only premise although its text buffer
\* is gone: buffers are dropped by Delete { what: Line } alone, so a delete of
\* that premise has run and was refused; and a nested subproof stands at its
\* minimum too.
C2_Witness ==
    /\ ~panicked
    /\ SoleLine(prf, PremRef(0))
    /\ PremRef(0) \notin DOMAIN pud.ref_to_input
    /\ \E r \in IssuedPJ(prf) : SoleLine(prf, r) /\ parent_of_line(prf, r) # None

\* ----------------------------------------------------------------------
\* C3: an Insert or Delete that neither deletes line R nor a subproof holding
\* R leaves R resolvable with the content (expression, rule, dependency
\* lists) it had.
touches(p, m, R) ==
    /\ m.kind = "Delete"
    /\ \/ m.what = "Line" /\ m.ref = R
       \/ /\ m.what = "Subproof"
          /\ parent_of_line(p, m.ref) # None
          /\ inside_sub(p, parent_of_line(p, m.ref), R)

C3_ReferenceStability ==
    \A m \in InsertMsgs \cup DeleteMsgs :
        \A R \in IssuedPJ(prf) :
            (lookup_pj(prf, R) /\ ~touches(prf, m, R)) =>
                /\ lookup_pj(after(m).prf, R)
                /\ lookup_content(after(m).prf, R) = lookup_content(prf, R)

\* A step that carries a citation has outlived the deletion of another line.
C3_Witness ==
    /\ ~panicked
    /\ \E k \in DOMAIN prf.just_map :
          Len(prf.just_map[k].deps) + Len(prf.just_map[k].sdeps) > 0
    /\ \E d \in issued : IsPrem(d) /\ d \notin LiveRefs(prf)
    /\ \E d \in issued : IsJust(d) /\ d \notin LiveRefs(prf)

\* ----------------------------------------------------------------------
\* C4: the references an insert creates were never issued before in this
\* proof, deleted ones included, so no UI entry a deletion left behind belongs
\* to the new line; the reference the insert selects is one of the new ones.
C4_FreshReferences ==
    \A m \in InsertMsgs :
        LET fresh == LiveRefs(after(m).prf) \ LiveRefs(prf)
        IN /\ fresh \cap issued = {}
           /\ fresh \cap (DOMAIN pud.ref_to_input \cup DOMAIN pud.ref_to_line_depth) = {}
           /\ (m.relative_to = "Line" /\ ~after(m).panicked) =>
                 after(m).selected_line \in fresh

\* A removed line has left an entry behind, and an insert is at hand whose new
\* line is of the same kind as the removed one.
C4_Witness ==
    /\ ~panicked
    /\ \E d \in issued \ LiveRefs(prf) :
          /\ d \in DOMAIN pud.ref_to_input \cup DOMAIN pud.ref_to_line_depth
          /\ \E m \in InsertMsgs :
                /\ m.relative_to = "Line" /\ ~after(m).panicked
                /\ after(m).selected_line[1] = d[1]
                /\ after(m).selected_line # d

\* ----------------------------------------------------------------------
\* C5: a Delete, SetRule or SetDependency whose reference does not resolve
\* is a no-op: update does not panic and the proof is unchanged.  (Insert is
\* left out: the specification leaves add_*_relative undefined there.)
StaleLineActionMsgs ==
    LET stale == {r \in IssuedPJ(prf) : ~lookup_pj(prf, r)}
    IN {DeleteMsg(what, r) : what \in {"Line", "Subproof"}, r \in stale}
       \cup {SetRuleMsg(rule, r) : rule \in Rules, r \in stale}
       \cup {SetDependencyMsg(to, dep, r) :
                to \in BOOLEAN, dep \in IssuedPJ(prf) \cup IssuedSub(prf), r \in stale}

C5_StaleReferenceRefused ==
    \A m \in StaleLineActionMsgs :
        ~after(m).panicked /\ after(m).prf = prf

\* ----------------------------------------------------------------------
\* C6: a refused Delete { what: Line } changes nothing: the proof, the text
\* buffer of every line (as the line's input shows it) and the selection are
\* as before.
C6_RefusedDeleteIsNoOp ==
    \A r \in IssuedPJ(prf) :
        (lookup_pj(prf, r) /\ ~may_remove_line(prf, r)) =>
            /\ after(DeleteMsg("Line", r)).prf = prf
            /\ \A x \in IssuedPJ(prf) :
                  input_value(after(DeleteMsg("Line", r)).pud, x) = input_value(pud, x)
            /\ after(DeleteMsg("Line", r)).selected_line = selected_line

\* ----------------------------------------------------------------------
\* C7: the root subproof is never removed: it stays in the pool, a
\* Delete { what: Subproof } for a line whose parent_of_line is None leaves
\* the proof unchanged, and "Delete subproof" is an option of lines inside a
\* nested subproof only.
C7_RootNeverRemoved ==
    /\ Root \in DOMAIN prf.sub_map
    /\ \A r \in IssuedPJ(prf) :
          parent_of_line(prf, r) = None =>
              after(DeleteMsg("Subproof", r)).prf = prf
    /\ \A r \in Range(rendered_lines(prf)) :
          "delete_subproof" \in action_options(prf, r) =>
              containing_sub(prf, r) \notin {Root, -1}

\* A document with a nested subproof, whose lines offer "Delete subproof",
\* beside root lines, which do not and for which the message changes nothing.
C7_Witness ==
    /\ ~panicked
    /\ \E r \in Range(rendered_lines(prf)) : "delete_subproof" \in action_options(prf, r)
    /\ \E r \in Range(rendered_lines(prf)) :
          /\ containing_sub(prf, r) = Root
          /\ "delete_subproof" \notin action_options(prf, r)
          /\ after(DeleteMsg("Subproof", r)).prf = prf

\* ----------------------------------------------------------------------
\* C8: for a selected step A the dependency checkbox of a candidate is
\* rendered only if the validator accepts the candidate; a line inside a
\* subproof that does not enclose A (a sibling subproof, before or after A)
\* gets none, and a line of an enclosing subproof that precedes A gets one.
position(p, r) == IndexOf(rendered_lines(p), r)

encloses(p, k, A) == k \in Range(ancestors(p, A))

C8_ScopeSoundness ==
    (selected_line # None /\ IsJust(selected_line) /\ lookup_pj(prf, selected_line)) =>
        LET A == selected_line
            offered(B) == render_dep_or_sdep_checkbox(prf, A, B) = "checkbox"
        IN /\ \A B \in Range(rendered_lines(prf)) \cup rendered_subproofs(prf) :
                 offered(B) => can_reference_dep(prf, A, B)
           /\ \A B \in Range(rendered_lines(prf)) \ {A} :
                 /\ ~encloses(prf, containing_sub(prf, B), A) => ~offered(B)
                 /\ (encloses(prf, containing_sub(prf, B), A)
                       /\ position(prf, B) < position(prf, A)) => offered(B)

\* The selected step stands in the root after a nested subproof: the lines
\* inside that sibling get no checkbox, the root's premise gets one.
C8_Witness ==
    /\ ~panicked
    /\ selected_line # None /\ IsJust(selected_line) /\ lookup_pj(prf, selected_line)
    /\ \E B \in Range(rendered_lines(prf)) :
          /\ ~encloses(prf, containing_sub(prf, B), selected_line)
          /\ position(prf, B) < position(prf, selected_line)
          /\ render_dep_or_sdep_checkbox(prf, selected_line, B) = "none"
    /\ \E B \in Range(rendered_lines(prf)) :
          /\ encloses(prf, containing_sub(prf, B), selected_line)
          /\ render_dep_or_sdep_checkbox(prf, selected_line, B) = "checkbox"

\* ----------------------------------------------------------------------
\* C9: when SetDependency { to: true } comes from the checkboxes only, every
\* line dependency and subproof dependency of every step satisfies the
\* validator's scoping rule relative to the step.
C9_DependenciesInScope ==
    \A k \in DOMAIN prf.just_map :
        \A d \in Range(prf.just_map[k].deps) \cup Range(prf.just_map[k].sdeps) :
            can_reference_dep(prf, JustRef(k), d)

\* ----------------------------------------------------------------------
\* C10: SetDependency { to: true } for a dependency the step cites, and
\* SetDependency { to: false } for one it does not cite, leave the step's
\* dependency lists as they are.
C10_IdempotentToggle ==
    \A j \in {x \in IssuedPJ(prf) : IsJust(x) /\ lookup_pj(prf, x)} :
        \A dep \in IssuedPJ(prf) \cup IssuedSub(prf) :
            LET to == cites(prf, j, dep)
                q == after(SetDependencyMsg(to, dep, j)).prf
            IN /\ q.just_map[j[2]].deps = prf.just_map[j[2]].deps
               /\ q.just_map[j[2]].sdeps = prf.just_map[j[2]].sdeps

\* A step cites one reference and not another: both idempotent cases are met.
C10_Witness ==
    /\ ~panicked
    /\ \E j \in {x \in IssuedPJ(prf) : IsJust(x) /\ lookup_pj(prf, x)} :
          /\ \E dep \in IssuedPJ(prf) \cup IssuedSub(prf) : cites(prf, j, dep)
          /\ \E dep \in IssuedPJ(prf) \cup IssuedSub(prf) : ~cites(prf, j, dep)


\* ----------------------------------------------------------------------
\* SetDependency messages on the live steps, over every reference issued.
SetDependencyMsgs ==
    {SetDependencyMsg(to, dep, r) :
        to \in BOOLEAN, dep \in IssuedPJ(prf) \cup IssuedSub(prf),
        r \in {x \in IssuedPJ(prf) : IsJust(x) /\ lookup_pj(prf, x)}}

\* The list of step r a toggle of dep works on.
toggled_list(p, r, dep) ==
    IF IsSub(dep) THEN p.just_map[r[2]].sdeps ELSE p.just_map[r[2]].deps

\* Premises come before steps, and within a kind the lower key comes first.
ascending(l) ==
    \A i \in 1..(Len(l) - 1) :
        \/ l[i][1] = l[i + 1][1] /\ l[i][2] < l[i + 1][2]
        \/ l[i][1] = "P" /\ l[i + 1][1] = "J"

\* C11: after any SetDependency on a step, the list that was toggled is in
\* strictly ascending order of the references (so it holds no reference
\* twice), whatever order or repetitions it had before.
C11_SortedDependencies ==
    \A m \in SetDependencyMsgs :
        ascending(toggled_list(after(m).prf, m.ref, m.dep))

\* A step holds a list that is out of order or repeats a reference, and a
\* SetDependency on that list is at hand.
C11_Witness ==
    \E m \in SetDependencyMsgs :
        /\ ~ascending(toggled_list(prf, m.ref, m.dep))
        /\ toggled_list(after(m).prf, m.ref, m.dep) # <<>>

\* ----------------------------------------------------------------------
\* The premises and steps held by the subproofs reachable from the root.
reachable_lines(p) ==
    LET ks == sub_descendants(p, Root)
    IN {PremRef(k) : k \in prems_in(p, ks)} \cup {JustRef(k) : k \in justs_in(p, ks)}

\* The number of nested subproofs that enclose line r.
nesting(p, r) ==
    Cardinality({k \in sub_descendants(p, Root) \ {Root} : inside_sub(p, SubRef(k), r)})

\* An entry of a subproof is a premise, a step or a nested subproof: the
\* number of lines it spans, and the number its first line has in map u.
span(p, e) ==
    IF IsSub(e)
    THEN Cardinality(prems_in(p, sub_descendants(p, e[2])))
         + Cardinality(justs_in(p, sub_descendants(p, e[2])))
    ELSE 1
first_number(p, u, e) ==
    IF IsSub(e) THEN u.ref_to_line_depth[premises(p, e[2])[1]][1]
    ELSE u.ref_to_line_depth[e][1]

\* C12: each line reachable from the root is mapped to (n, d): the reachable
\* lines get exactly the numbers 1..N, the first premise of the root is line
\* 1, within a subproof every entry (premises first, then the lines in order)
\* starts right after the lines of the entry before it, a nested subproof
\* taking no number of its own, and d counts the enclosing nested subproofs.
C12_LineNumbering ==
    ~panicked =>
        LET L == reachable_lines(prf)
            m == pud.ref_to_line_depth
        IN /\ L \subseteq DOMAIN m
           /\ {m[r][1] : r \in L} = 1..Cardinality(L)
           /\ m[premises(prf, Root)[1]][1] = 1
           /\ \A r \in L : m[r][2] = nesting(prf, r)
           /\ \A k \in sub_descendants(prf, Root) :
                 LET E == premises(prf, k) \o lines(prf, k)
                 IN \A i \in 1..(Len(E) - 1) :
                       first_number(prf, pud, E[i + 1])
                          = first_number(prf, pud, E[i]) + span(prf, E[i])

\* The document holds a nested subproof with a line after it, and the last
\* update changed the document.
C12_Witness ==
    /\ ~panicked
    /\ \E i \in 1..(Len(lines(prf, Root)) - 1) : IsSub(lines(prf, Root)[i])
    /\ Cardinality(reachable_lines(prf)) >= 4

\* ----------------------------------------------------------------------
\* C13: after any Insert or Delete (of a line or of a subproof), the keys of
\* ref_to_line_depth are exactly the premises and steps reachable from the
\* root: no entry is left for a removed line.
C13_LineInfoKeys ==
    \A m \in {x \in InsertMsgs : lookup_pj(prf, x.ref)} \cup DeleteMsgs :
        ~after(m).panicked =>
            DOMAIN after(m).pud.ref_to_line_depth = reachable_lines(after(m).prf)

\* ----------------------------------------------------------------------
\* What a round trip has to keep: the lines in document order, each with its
\* kind, its depth, the rank of the subproof that holds it, and for a step
\* the rule and the two dependency sets, a cited line named by its line
\* number and a cited subproof by its rank (0: not in the document).
line_number(p, r) ==
    IF r \in Range(rendered_lines(p)) THEN IndexOf(rendered_lines(p), r) ELSE 0
subproof_rank(p, sr) ==
    IF sr \in rendered_subproofs(p)
    THEN 1 + Cardinality({x \in rendered_subproofs(p) : first_line(p, x) < first_line(p, sr)})
    ELSE 0
structure(p) ==
    LET seq == rendered_lines(p)
    IN [i \in 1..Len(seq) |->
          [kind |-> seq[i][1],
           depth |-> nesting(p, seq[i]),
           holder |-> subproof_rank(p, SubRef(containing_sub(p, seq[i]))),
           rule |-> IF IsJust(seq[i]) THEN p.just_map[seq[i][2]].rule ELSE "-",
           deps |-> IF IsJust(seq[i])
                    THEN {line_number(p, x) : x \in Range(p.just_map[seq[i][2]].deps)}
                    ELSE {},
           sdeps |-> IF IsJust(seq[i])
                     THEN {subproof_rank(p, x) : x \in Range(p.just_map[seq[i][2]].sdeps)}
                     ELSE {}]]

round_trip(p) == proof_from_xml(xml_from_proof(p))

\* C14: a proof built through the widget's operations, saved and loaded
\* again, gives a proof with the same tree shape, the same rule on every
\* step and the same dependency sets.
C14_RoundTrip ==
    ~panicked =>
        /\ round_trip(prf).ok
        /\ structure(round_trip(prf).prf) = structure(prf)

C16_BlankDocument ==
    [][FileNew =>
          /\ DOMAIN prf'.sub_map = {Root}
          /\ Len(premises(prf', Root)) = 1
          /\ Len(lines(prf', Root)) = 1
          /\ IsPrem(premises(prf', Root)[1]) /\ IsJust(lines(prf', Root)[1])
          /\ DOMAIN prf'.prem_map = {premises(prf', Root)[1][2]}
          /\ DOMAIN prf'.just_map = {lines(prf', Root)[1][2]}
          /\ prf'.prem_map[premises(prf', Root)[1][2]] = BlankExpr
          /\ prf'.just_map[lines(prf', Root)[1][2]].rule = Reit
          /\ prf'.just_map[lines(prf', Root)[1][2]].deps = <<>>
          /\ prf'.just_map[lines(prf', Root)[1][2]].sdeps = <<>>
          /\ selected_line' = None
          /\ ~panicked']_vars

\* A widget made without data is the current one.
C16_Witness ==
    /\ ~panicked /\ proofids # <<>>
    /\ Cardinality(DOMAIN prf.prem_map) = 1 /\ Cardinality(DOMAIN prf.just_map) = 1

\* ----------------------------------------------------------------------
\* C20: any two ProofWidget instances ever created in the application, in any
\* order of creation (File > New, File > Open), have different proofids.
C20_UniqueProofIds ==
    \A i, j \in 1..Len(proofids) : i # j => proofids[i] # proofids[j]

\* Several widgets have been created, from a file and without one.
C20_Witness ==
    /\ Len(proofids) >= 3
    /\ Cardinality(DOMAIN prf.prem_map) = 2

\* ----------------------------------------------------------------------
\* C17: for each rendered line, verify_line is attempted only if the line's
\* text buffer is non-empty and parses; a missing or empty buffer gives no
\* feedback, an unparsable one gives "Parse error" without a call of
\* verify_line; rendering leaves the proof as it is.
C17_FeedbackGatedByParse ==
    ~panicked =>
        \A r \in Range(rendered_lines(prf)) :
            LET f == rule_feedback(prf, pud, r)
                missing == r \notin DOMAIN pud.ref_to_input
                buffer == IF missing THEN "" ELSE pud.ref_to_input[r]
            IN /\ f.verify_line => (~missing /\ buffer # "" /\ parse(buffer) # NoExpr)
               /\ (missing \/ buffer = "") => (f.shown = {""} /\ ~f.verify_line)
               /\ (buffer # "" /\ parse(buffer) = NoExpr) =>
                     (f.shown = {"Parse error"} /\ ~f.verify_line)
               /\ f.prf = prf

\* The rendered lines include one without a buffer, one with an empty
\* buffer and one whose buffer does not parse.
C17_Witness ==
    /\ ~panicked
    /\ \E r \in Range(rendered_lines(prf)) : r \notin DOMAIN pud.ref_to_input
    /\ \E r \in Range(rendered_lines(prf)) : input_value(pud, r) = "A &"
    /\ \E r \in Range(rendered_lines(prf)) :
          r \in DOMAIN pud.ref_to_input /\ pud.ref_to_input[r] = ""

\* ----------------------------------------------------------------------
\* C18: a CallOnProof message invokes its continuation exactly once, with
\* the proof as it is at that moment, and leaves the proof, the selection,
\* the text buffers and the line-number map unchanged.
C18_CallOnProofReadsOnly ==
    ~panicked =>
        /\ after(CallOnProofMsg).called = <<prf>>
        /\ ~after(CallOnProofMsg).panicked
        /\ after(CallOnProofMsg).prf = prf
        /\ after(CallOnProofMsg).selected_line = selected_line
        /\ after(CallOnProofMsg).pud.ref_to_input = pud.ref_to_input
        /\ after(CallOnProofMsg).pud.ref_to_line_depth = pud.ref_to_line_depth

\* CallOnProof reaches a widget whose proof was edited: a line is selected,
\* a buffer holds text and the proof has more lines than the blank one.
C18_Witness ==
    /\ ~panicked
    /\ selected_line # None
    /\ \E r \in DOMAIN pud.ref_to_input : pud.ref_to_input[r] # ""
    /\ Len(rendered_lines(prf)) > 2
    /\ after(CallOnProofMsg).called = <<prf>>

\* ----------------------------------------------------------------------
\* C19: expand replaces each macro occurrence by the symbol of its TABLE
\* row, a macro that contains another macro taking precedence; the result
\* holds no macro of TABLE, and a string without a macro comes back
\* unchanged.

\* The macro occurrences of str: [from, to, symbol], from..to the matched
\* positions.
occurrences(str) ==
    { [from |-> i, to |-> i + Len(TABLE[r].macros[k]) - 1, symbol |-> TABLE[r].symbol] :
        <<r, k, i>> \in
          { t \in (1..Len(TABLE)) \X (1..3) \X (1..Len(str)) :
              /\ t[2] <= Len(TABLE[t[1]].macros)
              /\ t[3] + Len(TABLE[t[1]].macros[t[2]]) - 1 <= Len(str)
              /\ SubSeq(str, t[3], t[3] + Len(TABLE[t[1]].macros[t[2]]) - 1)
                   = TABLE[t[1]].macros[t[2]] } }

\* The occurrences that lie in no other occurrence.
outermost(occ) ==
    { o \in occ : ~\E q \in occ : q # o /\ q.from <= o.from /\ o.to <= q.to }

\* No two of the occurrences share a position.
disjoint(occ) ==
    \A o, q \in occ : o = q \/ o.to < q.from \/ q.to < o.from

\* str from position i on, each occurrence of occ replaced by its symbol.
RECURSIVE substituted(_, _, _)
substituted(str, occ, i) ==
    IF i > Len(str) THEN <<>>
    ELSE IF \E o \in occ : o.from = i
    THEN LET o == CHOOSE o \in occ : o.from = i
         IN <<o.symbol>> \o substituted(str, occ, o.to + 1)
    ELSE <<str[i]>> \o substituted(str, occ, i + 1)

expands_to(str, out) ==
    /\ occurrences(out) = {}
    /\ occurrences(str) = {} => out = str
    /\ disjoint(outermost(occurrences(str))) =>
          out = substituted(str, outermost(occurrences(str)), 1)
    /\ str = <<"<", "-", ">">> => out = <<"U+2194">>
    /\ str = <<"_", "|", "_">> => out = <<"U+22A5">>
    /\ str = <<"^", "|", "^">> => out = <<"U+22A4">>

subs_inside(p, sr) == {SubRef(k) : k \in sub_descendants(p, sr[2])}
lines_inside(p, sr) ==
    {PremRef(k) : k \in prems_in(p, sub_descendants(p, sr[2]))}
    \cup {JustRef(k) : k \in justs_in(p, sub_descendants(p, sr[2]))}

\* The steps of the proof that are not inside sr.
steps_outside(p, sr) == DOMAIN p.just_map \ justs_in(p, sub_descendants(p, sr[2]))

\* C21: Delete { what: Subproof } does not clean up citations: after the
\* nested subproof S is removed, every step outside S holds the line
\* dependencies and subproof dependencies it held before, those on lines
\* inside S and on S included.
C21_DeleteSubproofKeepsCitations ==
    ~panicked =>
        \A r \in IssuedPJ(prf) :
            parent_of_line(prf, r) # None =>
                \A k \in steps_outside(prf, parent_of_line(prf, r)) :
                    /\ k \in DOMAIN after(DeleteMsg("Subproof", r)).prf.just_map
                    /\ after(DeleteMsg("Subproof", r)).prf.just_map[k].deps
                          = prf.just_map[k].deps
                    /\ after(DeleteMsg("Subproof", r)).prf.just_map[k].sdeps
                          = prf.just_map[k].sdeps

\* A subproof S is about to be removed while a step outside S cites a line
\* inside S and cites S itself.
C21_Witness ==
    /\ ~panicked
    /\ \E r \in IssuedPJ(prf) :
          /\ parent_of_line(prf, r) # None
          /\ SubRef(containing_sub(prf, r)) \notin
                rendered_subproofs(after(DeleteMsg("Subproof", r)).prf)
          /\ \E k \in steps_outside(prf, parent_of_line(prf, r)) :
                /\ Range(prf.just_map[k].deps) \cap lines_inside(prf, parent_of_line(prf, r)) # {}
                /\ parent_of_line(prf, r) \in Range(prf.just_map[k].sdeps)

\* ----------------------------------------------------------------------
\* The sequence l is the sequence old with x put in next to r: right after
\* r (aft) or right before it, the elements of old in their order.
put_next_to(l, old, x, r, aft) ==
    /\ x \notin Range(old)
    /\ Len(l) = Len(old) + 1
    /\ RemoveElem(l, x) = old
    /\ l[IndexOf(old, r) + (IF aft THEN 1 ELSE 0)] = x

\* Proof a is proof p with the one line x, of r's kind and blank, put next
\* to r in r's subproof; nothing else of p has changed.
line_inserted(p, a, x, r, aft) ==
    /\ x[1] = r[1]
    /\ x \notin LiveRefs(p)
    /\ DOMAIN a.sub_map = DOMAIN p.sub_map
    /\ \A k \in DOMAIN p.sub_map \ {containing_sub(p, r)} : a.sub_map[k] = p.sub_map[k]
    /\ IF IsPrem(r)
       THEN /\ put_next_to(premises(a, containing_sub(p, r)),
                           premises(p, containing_sub(p, r)), x, r, aft)
            /\ lines(a, containing_sub(p, r)) = lines(p, containing_sub(p, r))
            /\ DOMAIN a.prem_map = DOMAIN p.prem_map \cup {x[2]}
            /\ a.prem_map[x[2]] = BlankPremise
            /\ a.just_map = p.just_map
       ELSE /\ put_next_to(lines(a, containing_sub(p, r)),
                           lines(p, containing_sub(p, r)), x, r, aft)
            /\ premises(a, containing_sub(p, r)) = premises(p, containing_sub(p, r))
            /\ DOMAIN a.just_map = DOMAIN p.just_map \cup {x[2]}
            /\ a.just_map[x[2]] = Justification(BlankStep, Reit, <<>>, <<>>)
            /\ a.prem_map = p.prem_map
    /\ \A k \in DOMAIN p.prem_map : a.prem_map[k] = p.prem_map[k]
    /\ \A k \in DOMAIN p.just_map : a.just_map[k] = p.just_map[k]

\* In the rendered order the premises of every subproof come, one after
\* the other, before every line of that subproof.
premises_first(p) ==
    \A k \in sub_descendants(p, Root) :
        /\ \A i \in 1..Len(premises(p, k)) :
              IndexOf(rendered_lines(p), premises(p, k)[i])
                 = IndexOf(rendered_lines(p), premises(p, k)[1]) + i - 1
        /\ \A x \in Range(premises(p, k)), y \in lines_inside(p, SubRef(k)) \ Range(premises(p, k)) :
              IndexOf(rendered_lines(p), x) < IndexOf(rendered_lines(p), y)

\* The widget after update has handled w took the proof from p to a proof with
\* one new blank line next to r, which it selected.
inserts_line(w, p, r, aft) ==
    /\ ~w.panicked
    /\ w.selected_line # None
    /\ line_inserted(p, w.prf, w.selected_line, r, aft)
    /\ w.selected_line \notin issued
    /\ premises_first(w.prf)

\* C22: Insert { what: Line } relative to line r adds exactly one new line of
\* r's kind (a premise for a premise, a reiterate step without dependencies
\* for a step) in r's subproof, right after r when after is set and right
\* before r otherwise; every other subproof and the order of the existing
\* lines are as before, premises stay together before the lines, the new
\* reference differs from all existing ones and the new line is selected.
C22_InsertLine ==
    ~panicked =>
        \A r \in IssuedPJ(prf), aft \in BOOLEAN :
            lookup_pj(prf, r) =>
                inserts_line(after(InsertMsg("Line", aft, "Line", r)), prf, r, aft)

\* A premise was inserted before a premise and a step after a step: the
\* selected line is new, and its subproof holds more than one premise or
\* more than one step.
C22_Witness ==
    /\ ~panicked
    /\ Len(premises(prf, Root)) = 2
    /\ premises(prf, Root)[2] = PremRef(0)
    /\ Len(lines(prf, Root)) = 2
    /\ selected_line = JustRef(1)
    /\ lines(prf, Root) = <<JustRef(0), JustRef(1)>>
    /\ inserts_line(after(InsertMsg("Line", FALSE, "Line", PremRef(0))), prf, PremRef(0), FALSE)

\* ----------------------------------------------------------------------
\* Proof a is proof p with the one nested subproof x put in as a line next
\* to step r in r's subproof; x holds one premise, pr, and one reiterate
\* step without dependencies; nothing else of p has changed.
subproof_inserted(p, a, x, pr, r, aft) ==
    /\ IsSub(x) /\ x \notin LiveRefs(p)
    /\ DOMAIN a.sub_map = DOMAIN p.sub_map \cup {x[2]}
    /\ \A k \in DOMAIN p.sub_map \ {containing_sub(p, r)} : a.sub_map[k] = p.sub_map[k]
    /\ put_next_to(lines(a, containing_sub(p, r)), lines(p, containing_sub(p, r)), x, r, aft)
    /\ premises(a, containing_sub(p, r)) = premises(p, containing_sub(p, r))
    /\ premises(a, x[2]) = <<pr>>
    /\ IsPrem(pr) /\ pr \notin LiveRefs(p) /\ lookup_pj(a, pr)
    /\ Len(lines(a, x[2])) = 1
    /\ IsJust(lines(a, x[2])[1]) /\ lines(a, x[2])[1] \notin LiveRefs(p)
    /\ lookup_pj(a, lines(a, x[2])[1])
    /\ a.just_map[lines(a, x[2])[1][2]].rule = Reit
    /\ a.just_map[lines(a, x[2])[1][2]].deps = <<>>
    /\ a.just_map[lines(a, x[2])[1][2]].sdeps = <<>>
    /\ DOMAIN a.prem_map = DOMAIN p.prem_map \cup {pr[2]}
    /\ DOMAIN a.just_map = DOMAIN p.just_map \cup {lines(a, x[2])[1][2]}
    /\ \A k \in DOMAIN p.prem_map : a.prem_map[k] = p.prem_map[k]
    /\ \A k \in DOMAIN p.just_map : a.just_map[k] = p.just_map[k]

\* The widget after update has handled w took the proof from p to a proof with
\* one new subproof next to step r, and selected the premise of that subproof.
inserts_subproof(w, p, r, aft) ==
    /\ ~w.panicked
    /\ w.selected_line # None
    /\ \E x \in LiveRefs(w.prf) \ issued :
          subproof_inserted(p, w.prf, x, w.selected_line, r, aft)

\* C23: Insert { what: Subproof } relative to step j adds one nested subproof
\* as a line next to j in j's subproof (after j when after is set, before j
\* otherwise); when update returns, that subproof holds exactly one premise
\* and one reiterate step with empty dependency lists, and the selected line
\* is the premise of the new subproof.
C23_InsertSubproof ==
    ~panicked =>
        \A r \in IssuedPJ(prf), aft \in BOOLEAN :
            (IsJust(r) /\ lookup_pj(prf, r)) =>
                inserts_subproof(after(InsertMsg("Subproof", aft, "Line", r)), prf, r, aft)

\* A subproof was inserted before step j0 of the root: the root's lines are
\* the subproof and j0, and the premise of the subproof is selected.
C23_Witness ==
    /\ ~panicked
    /\ Len(lines(prf, Root)) = 2
    /\ IsSub(lines(prf, Root)[1])
    /\ lines(prf, Root)[2] = JustRef(0)
    /\ selected_line = premises(prf, lines(prf, Root)[1][2])[1]
    /\ inserts_subproof(after(InsertMsg("Subproof", TRUE, "Line", JustRef(0))),
                        prf, JustRef(0), TRUE)

\* ----------------------------------------------------------------------
\* The nested subproofs that enclose line r, and the innermost of them: the
\* one that encloses r and holds no other one that does.
enclosing(p, r) == {sr \in rendered_subproofs(p) : r \in lines_inside(p, sr)}
innermost(p, r) ==
    CHOOSE sr \in enclosing(p, r) : \A x \in enclosing(p, r) : sr \in subs_inside(p, x)

\* Proof a is proof p without subproof sr and all it holds; what is outside
\* sr is as it was, in its order.
subproof_removed(p, a, sr) ==
    /\ LiveRefs(a) = LiveRefs(p) \ (subs_inside(p, sr) \cup lines_inside(p, sr))
    /\ lines(a, containing_sub(p, sr)) = RemoveElem(lines(p, containing_sub(p, sr)), sr)
    /\ premises(a, containing_sub(p, sr)) = premises(p, containing_sub(p, sr))
    /\ \A k \in DOMAIN a.sub_map \ {containing_sub(p, sr)} : a.sub_map[k] = p.sub_map[k]
    /\ \A k \in DOMAIN a.prem_map : a.prem_map[k] = p.prem_map[k]
    /\ \A k \in DOMAIN a.just_map : a.just_map[k] = p.just_map[k]
    /\ rendered_lines(a) = SelectSeq(rendered_lines(p), LAMBDA x : x \notin lines_inside(p, sr))
    /\ a.next_prem = p.next_prem /\ a.next_just = p.next_just /\ a.next_sub = p.next_sub

\* C24: Delete { what: Subproof } on line r removes the innermost nested
\* subproof S around r, with all premises, steps and nested subproofs in S,
\* from the line sequence of S's parent; every premise and line outside S,
\* and their order, are as before.
C24_DeleteSubproof ==
    ~panicked =>
        \A r \in Range(rendered_lines(prf)) :
            enclosing(prf, r) # {} =>
                /\ ~after(DeleteMsg("Subproof", r)).panicked
                /\ subproof_removed(prf, after(DeleteMsg("Subproof", r)).prf, innermost(prf, r))

\* A line lies in a subproof inside a subproof that holds a subproof of its
\* own: the delete takes one of the two subproofs around the line, and with
\* it more than the lines it holds directly.
C24_Witness ==
    /\ ~panicked
    /\ \E r \in Range(rendered_lines(prf)) :
          /\ Cardinality(enclosing(prf, r)) = 2
          /\ subproof_removed(prf, after(DeleteMsg("Subproof", r)).prf, innermost(prf, r))
    /\ \E r \in Range(rendered_lines(prf)) :
          /\ enclosing(prf, r) # {}
          /\ Cardinality(subs_inside(prf, innermost(prf, r))) = 2
          /\ subproof_removed(prf, after(DeleteMsg("Subproof", r)).prf, innermost(prf, r))

\* ----------------------------------------------------------------------
\* C25: in every state reached by Select, Insert, Delete line and Delete
\* subproof messages, selected_line is None or resolves to a premise or step
\* of the proof, so the lookup of the selected line that rendering a
\* dependency checkbox makes never fails.
C25_SelectedLineResolves ==
    ~panicked =>
        /\ selected_line = None \/ lookup_pj(prf, selected_line)
        /\ \A x \in Range(rendered_lines(prf)) \cup rendered_subproofs(prf) :
              render_dep_or_sdep_checkbox(prf, selected_line, x) # "panic"

\* ----------------------------------------------------------------------
\* C26: in every state the widget's messages reach, each line dependency of
\* each step of the document has an entry in ref_to_line_depth, so the
\* index render_justification_widget makes into that map to print the line
\* numbers of the dependencies never fails, also after the cited line was
\* deleted.
C26_DependencyLineNumbers ==
    ~panicked =>
        \A r \in Range(rendered_lines(prf)) :
            IsJust(r) =>
                \A i \in 1..Len(prf.just_map[r[2]].deps) :
                    prf.just_map[r[2]].deps[i] \in DOMAIN pud.ref_to_line_depth

\* ----------------------------------------------------------------------
\* The messages the action selectors of the rendered lines can send.
offered(p) ==
    {handle_action(v, r) : <<v, r>> \in
        {x \in {"delete_line", "delete_subproof", "insert_line_before_line",
                "insert_line_after_line", "insert_subproof_before_line",
                "insert_subproof_after_line"} \X Range(rendered_lines(p)) :
            x[1] \in action_options(p, x[2])}}

\* C27: an Insert { what: Subproof, relative_to: Line } message is handled
\* without a panic for every line reference it comes with: the unwrap that
\* takes a step reference out of the insertion point never meets a premise
\* reference.
C27_InsertSubproofNeverOnPremise ==
    ~panicked =>
        \A m \in offered(prf) :
            (m.kind = "Insert" /\ m.what = "Subproof" /\ m.relative_to = "Line") =>
                /\ IsJust(m.ref)
                /\ ~after(m).panicked

\* Premises and steps are rendered, in the root and in a subproof, and the
\* selector of a step offers the insert of a subproof.
C27_Witness ==
    /\ ~panicked
    /\ \E r \in Range(rendered_lines(prf)) : IsPrem(r) /\ parent_of_line(prf, r) # None
    /\ \E r \in Range(rendered_lines(prf)) : IsPrem(r) /\ parent_of_line(prf, r) = None
    /\ \E m \in offered(prf) :
          /\ m.kind = "Insert" /\ m.what = "Subproof" /\ m.relative_to = "Line"
          /\ ~after(m).panicked
          /\ after(m).prf # prf

\* ----------------------------------------------------------------------
\* The expression of line r of proof p.
expression(p, r) == IF IsPrem(r) THEN p.prem_map[r[2]] ELSE p.just_map[r[2]].expr

\* Widget w is the widget (p, u) with text stored as the buffer of r and,
\* when text parses, its expression as the expression of r; the rule and
\* the dependency lists of r and all other lines are those of p.
line_changed(w, p, u, r, text) ==
    /\ ~w.panicked
    /\ r \in DOMAIN w.pud.ref_to_input
    /\ w.pud.ref_to_input[r] = text
    /\ DOMAIN w.pud.ref_to_input = DOMAIN u.ref_to_input \cup {r}
    /\ \A x \in DOMAIN u.ref_to_input \ {r} : w.pud.ref_to_input[x] = u.ref_to_input[x]
    /\ LiveRefs(w.prf) = LiveRefs(p)
    /\ w.prf.sub_map = p.sub_map
    /\ \A x \in LiveRefs(p) :
          /\ (IsPrem(x) \/ IsJust(x)) =>
                expression(w.prf, x) =
                    (IF x = r /\ parse(text) # NoExpr THEN parse(text) ELSE expression(p, x))
          /\ IsJust(x) =>
                /\ w.prf.just_map[x[2]].rule = p.just_map[x[2]].rule
                /\ w.prf.just_map[x[2]].deps = p.just_map[x[2]].deps
                /\ w.prf.just_map[x[2]].sdeps = p.just_map[x[2]].sdeps

\* C28: LineChanged(r, text) always stores text as the text buffer of r; the
\* expression of r in the proof becomes the parsed expression when text
\* parses and stays as it is when it does not; in both cases the rule and
\* the dependency lists of r and every other line are unchanged.
C28_LineChanged ==
    ~panicked =>
        \A r \in IssuedPJ(prf), text \in Texts \cup {""} :
            line_changed(after(LineChangedMsg(r, text)), prf, pud, r, text)

\* A step with a rule other than the default holds the expression of text
\* that parsed, while its buffer holds text that does not parse.
C28_Witness ==
    /\ ~panicked
    /\ \E r \in LiveRefs(prf) :
          /\ IsJust(r)
          /\ prf.just_map[r[2]].rule # Reit
          /\ expression(prf, r) = "A"
          /\ input_value(pud, r) = "A &"
          /\ line_changed(after(LineChangedMsg(r, "A &")), prf, pud, r, "A &")

\* ----------------------------------------------------------------------
\* Proof a differs from proof p at most in the list of step r that a toggle
\* of dep works on; it is p when r is a premise.
only_list_toggled(p, a, r, dep) ==
    /\ a.prem_map = p.prem_map
    /\ a.sub_map = p.sub_map
    /\ DOMAIN a.just_map = DOMAIN p.just_map
    /\ \A k \in DOMAIN p.just_map :
          /\ a.just_map[k].expr = p.just_map[k].expr
          /\ a.just_map[k].rule = p.just_map[k].rule
          /\ (JustRef(k) # r \/ IsSub(dep)) => a.just_map[k].deps = p.just_map[k].deps
          /\ (JustRef(k) # r \/ ~IsSub(dep)) => a.just_map[k].sdeps = p.just_map[k].sdeps
    /\ IsPrem(r) => a = p

\* SetDependency messages for every line, premises included.
SetDependencyMsgsAnyLine ==
    {SetDependencyMsg(to, dep, r) :
        to \in BOOLEAN, dep \in IssuedPJ(prf) \cup IssuedSub(prf), r \in IssuedPJ(prf)}

\* C29: SetDependency { to, dep } on step j changes only the list of j that
\* dep belongs to (the line dependencies for a line reference, the subproof
\* dependencies for a subproof reference): the conclusion, the rule and the
\* other list of j and every other step are unchanged, and when the target
\* is a premise the proof is unchanged.
C29_SetDependencyFrame ==
    ~panicked =>
        \A m \in SetDependencyMsgsAnyLine :
            /\ ~after(m).panicked
            /\ only_list_toggled(prf, after(m).prf, m.ref, m.dep)

\* A step holds line dependencies and subproof dependencies; toggles change
\* its line dependencies and its subproof dependencies, one list each.
C29_Witness ==
    /\ ~panicked
    /\ \E m \in SetDependencyMsgsAnyLine : IsPrem(m.ref) /\ m.to /\ after(m).prf = prf
    /\ \E k \in DOMAIN prf.just_map :
          /\ prf.just_map[k].deps # <<>>
          /\ prf.just_map[k].sdeps # <<>>
          /\ \E m \in SetDependencyMsgs :
                /\ m.ref = JustRef(k) /\ IsSub(m.dep)
                /\ after(m).prf.just_map[k].sdeps # prf.just_map[k].sdeps
          /\ \E m \in SetDependencyMsgs :
                /\ m.ref = JustRef(k) /\ ~IsSub(m.dep)
                /\ after(m).prf.just_map[k].deps # prf.just_map[k].deps

\* ----------------------------------------------------------------------
\* The rows of out that are not row spacers, in their order.
kept_rows(out) == SelectSeq(out, LAMBDA row : ~row.spacer)

\* out is collapsed: no two adjacent rows are both row spacers and the last
\* row is not a row spacer.
collapsed(out) ==
    /\ \A i \in 1..(Len(out) - 1) : ~(out[i].spacer /\ out[i + 1].spacer)
    /\ out # <<>> => ~out[Len(out)].spacer

\* C30: for the row sequence render_proof builds, the collapse loop ends
\* and leaves a sequence in which no two adjacent rows are both spacers and
\* the last row is not a spacer, every other row kept in its order.
C30_SpacerCollapse ==
    /\ collapse_loop(output, 1, 0).iterations <= Len(output)
    /\ collapsed(collapse_loop(output, 1, 0).output)
    /\ kept_rows(collapse_loop(output, 1, 0).output) = kept_rows(output)

\* The rows hold two row spacers side by side and a row spacer at the end,
\* and the loop has taken rows out.
C30_Witness ==
    /\ \E i \in 1..(Len(output) - 1) : output[i].spacer /\ output[i + 1].spacer
    /\ output # <<>> /\ output[Len(output)].spacer
    /\ Len(collapse_loop(output, 1, 0).output) = Len(output) - 2
    /\ collapsed(collapse_loop(output, 1, 0).output)


\* ----------------------------------------------------------------- C36
\* The logic symbols of the table.
Symbols == {TABLE[i].symbol : i \in 1..Len(TABLE)}

\* C36: expand is idempotent: for every string, expanding the expansion
\* yields the expansion again.
C36_ExpandIdempotent == \A expanded \in {expand(s)} : expand(expanded) = expanded

\* C36 witness: expand has replaced macros of the text (the text holds at
\* least two symbols) and a further expansion leaves the text as it is.
C36_Witness ==
    /\ Cardinality({i \in 1..Len(s) : s[i] \in Symbols}) >= 2
    /\ expand(s) = s

\* ----------------------------------------------------------------- C31
\* C31: FileSave serializes the proof of the tab shown: whenever the save
\* continuation runs on a ProofWidget, that widget is the one mounted in
\* tabs[current_tab], also when two tabs carry the same name.
C31_SaveCurrentTab ==
    [][HandleProofWidget =>
          browser'.download.link = browser.mounted[tabbedcontainer.current_tab + 1]]_vars

\* ----------------------------------------------------------------- C32
\* A tab with the name of the first blank proof is in the TabbedContainer.
first_blank_tab ==
    \E i \in 1..Len(tabbedcontainer.tabs) : tabbedcontainer.tabs[i].name = Untitled(1)

\* C32: once App has handled MenuWidgetInit, a tab named "Untitled proof 1"
\* exists in the end, whichever of MenuWidgetInit and TabbedContainerInit
\* reaches App first.
C32_FirstBlankTab == app.menuwidget_link ~> first_blank_tab

\* C32 witness: App handled MenuWidgetInit before TabbedContainerInit, and
\* the message that makes the first blank tab is on its way.
C32_Witness ==
    /\ app.menuwidget_link /\ ~app.tabcontainer_link
    /\ queue.MenuWidget # <<>> /\ Head(queue.MenuWidget).kind = "FileNew"
    /\ ~first_blank_tab

\* ----------------------------------------------------------------- C33
\* The readers whose read is under way: their onload event is still to come.
loading == {r \in 1..Len(browser.readers) : browser.readers[r].state = "LOADING"}

\* C33: the file-load callback never blocks: whenever an onload event can
\* run the closure, the channel holds an entry for recv, and no run of the
\* closure has blocked.
C33_RecvNeverBlocks ==
    /\ browser.halt # "blocked"
    /\ loading # {} => \A r \in loading :
           ~file_open_closure(menuwidget, [browser.readers EXCEPT ![r].state = "DONE"]).blocked

\* C33 witness: two reads are under way and the channel holds the two
\* entries sent when they were started.
C33_Witness ==
    /\ idle
    /\ Cardinality(loading) = 2
    /\ Len(menuwidget.filename_channel) = 2

\* ----------------------------------------------------------------- C34
\* The tabs that carry the file's name and a ProofWidget on its contents,
\* and the readers that read the file to the end.
tabs_of(file) ==
    {i \in 1..Len(tabbedcontainer.tabs) :
        /\ tabbedcontainer.tabs[i].name = file.name
        /\ tabbedcontainer.tabs[i].content =
               ProofWidgetHtml(SomeData(file.contents), file.name)}
reads_done(file) ==
    {r \in 1..Len(browser.readers) :
        browser.readers[r].file = file /\ browser.readers[r].state = "DONE"}

\* C34: every file whose read completed has exactly one tab with its name
\* and its contents per completed read, once every message is handled, in
\* whatever order the reads complete and also when another read failed.
C34_LoadedFileGetsItsTab ==
    idle => \A file \in Files : Cardinality(tabs_of(file)) = Cardinality(reads_done(file))

\* ----------------------------------------------------------------- C35
\* The messages the TabbedContainer can get: SwitchTab from a rendered tab
\* button, CreateTab for a blank proof or a file, GetCurrentTab from App.
CreateTabMsgs ==
    {CreateTabMsg(Untitled(n), ProofWidgetHtml(NoData, Untitled(n))) : n \in 1..MaxUntitled}
    \cup {CreateTabMsg(file.name, ProofWidgetHtml(SomeData(file.contents), file.name)) :
             file \in Files}
TabbedContainerMsgs ==
    tab_buttons(tabbedcontainer) \cup CreateTabMsgs \cup {GetCurrentTabMsg(app.proofs)}

\* C35: current_tab is a valid index into tabs; CreateTab appends one tab
\* at the end and changes neither current_tab nor the tabs there were; no
\* message removes or changes a tab, panics, or leaves current_tab invalid.
C35_CurrentTabValid ==
    /\ tabbedcontainer.current_tab \in 0..(Len(tabbedcontainer.tabs) - 1)
    /\ \A m \in CreateTabMsgs :
          /\ TabbedContainer_update(tabbedcontainer, m).tc.tabs =
                 Append(tabbedcontainer.tabs, [name |-> m.name, content |-> m.content])
          /\ TabbedContainer_update(tabbedcontainer, m).tc.current_tab =
                 tabbedcontainer.current_tab
    /\ \A m \in TabbedContainerMsgs :
          /\ ~TabbedContainer_update(tabbedcontainer, m).panicked
          /\ Len(TabbedContainer_update(tabbedcontainer, m).tc.tabs) >= Len(tabbedcontainer.tabs)
          /\ SubSeq(TabbedContainer_update(tabbedcontainer, m).tc.tabs,
                    1, Len(tabbedcontainer.tabs)) = tabbedcontainer.tabs
          /\ TabbedContainer_update(tabbedcontainer, m).tc.current_tab \in
                 0..(Len(TabbedContainer_update(tabbedcontainer, m).tc.tabs) - 1)

\* C35 witness: tabs were created, and a tab that is neither the first nor
\* the last is shown.
C35_Witness ==
    /\ idle
    /\ Len(tabbedcontainer.tabs) >= 4
    /\ tabbedcontainer.current_tab \in 1..(Len(tabbedcontainer.tabs) - 2)
====
